---- MODULE Spec2Model ----
(***************************************************************************)
(* Diagonal Source Transfer preconditioner (examples/maxwell-solver/DST).  *)
(*                                                                         *)
(* The object built by DST::DST and the operations DST::Mult,              *)
(* DST::TransferSources, DST::GetCutOffSolution, DST::Getijk and           *)
(* DST::GetPatchId as a state machine.                                     *)
(*                                                                         *)
(* Numbers.  Vector entries are residues modulo 5: the image of exact      *)
(* arithmetic over the dyadic rationals under the ring homomorphism that   *)
(* sends 1/2 to 3.  Sums, products, negation and the window weight 1/2 are *)
(* computed as the code computes them; "Norml2() < 1e-11" is "every entry  *)
(* is 0".                                                                  *)
(*                                                                         *)
(* Mesh.  One true DOF per cell of the nx x ny (x nz) patch grid; a patch  *)
(* owns its cell and overlaps the cells of its grid neighbours (one layer).*)
(* A complex vector keeps its real block first and its imaginary block     *)
(* second, as GetCutOffSolution reads it (data, &data[n]).                 *)
(***************************************************************************)
EXTENDS Integers, Sequences, FiniteSets, TLC

\* ------------------------------------------------------------------ bounds
\* Largest number of patches along x and along y.
MaxN == 3
\* Largest number of patches along z of a three-dimensional partition.
MaxNz == 2
\* Largest number of patches of the two-thread specification.
MaxNConc == 2

\* ----------------------------------------------------------------- scalars
Scalars == 0 .. 4
Modulus == Cardinality(Scalars)
Half == CHOOSE h \in Scalars : (2 * h) % Modulus = 1

\* Values an uninitialized double may hold (new Vector(n) without a fill).
Garbage == {0, 1}

Threads == {1, 2}

\* ----------------------------------------------------------------- vectors
\* Vector(n); v = 0.0
ZeroVec(n) == [k \in 1 .. n |-> 0]
FillVec(n, c) == [k \in 1 .. n |-> c]
UnitVec(n, at) == [k \in 1 .. n |-> IF k = at THEN 1 ELSE 0]

\* Vector::operator+= : this[k] += v[k] for k < this->size
VAdd(a, b) == [k \in 1 .. Len(a) |-> (a[k] + b[k]) % Modulus]

\* Vector::operator*=(-1.0)
VNeg(a) == [k \in 1 .. Len(a) |-> (Modulus - a[k]) % Modulus]

\* Faulty variant of NormBelowThreshold: the test of line 139 never true, no
\* visit is skipped.
NormNeverBelowThreshold(v) == FALSE

\* Vector::Norml2() < 1e-11
NormBelowThreshold(v) == \A k \in 1 .. Len(v) : v[k] = 0

\* Vector::GetSubVector(dofs, elemvect): elemvect is resized to dofs.Size()
GetSubVector(v, dofs) == [k \in 1 .. Len(dofs) |-> v[dofs[k] + 1]]

\* Vector::SetSubVector(dofs, elemvect): v[dofs[k]] = elemvect[k]
SetSubVector(v, dofs, e) ==
  [g \in 1 .. Len(v) |->
     LET ks == {k \in 1 .. Len(dofs) : dofs[k] + 1 = g}
     IN IF ks = {} THEN v[g]
        ELSE e[CHOOSE k \in ks : \A k2 \in ks : k2 <= k]]

\* A Vector object holds its entries: v as the sequence of its entries.
Stored(v) == v \o <<>>

\* ---------------------------------------------------------------- geometry
\* The elements of a finite set of integers in increasing order.
SortedSeq(S) ==
  [k \in 1 .. Cardinality(S) |->
     CHOOSE x \in S : Cardinality({y \in S : y < x}) = k - 1]

Abs(x) == IF x < 0 THEN -x ELSE x

\* Grid coordinates of cell / patch id g in a grid n3 = <<nx, ny, nz>>.
CoordI(g, n3) == (g - (g \div (n3[1] * n3[2])) * n3[1] * n3[2]) % n3[1]
CoordJ(g, n3) == (g - (g \div (n3[1] * n3[2])) * n3[1] * n3[2]) \div n3[1]
CoordK(g, n3) == g \div (n3[1] * n3[2])

\* MeshPartition: number of patches and the (i,j,k) -> patch id table.
PartitionNrPatch(n3) == n3[1] * n3[2] * n3[3]
PartitionSubdomains(n3) ==
  [c \in (0 .. n3[1] - 1) \X (0 .. n3[2] - 1) \X (0 .. n3[3] - 1) |->
     c[1] + n3[1] * (c[2] + n3[2] * c[3])]

\* Global true-DOF count of the mesh: one per cell.
GlobalTrueVSize(n3) == n3[1] * n3[2] * n3[3]

\* Cells of patch p: its own cell and the cells one layer around it.
PatchCells(p, n3) ==
  {g \in 0 .. GlobalTrueVSize(n3) - 1 :
     /\ Abs(CoordI(g, n3) - CoordI(p, n3)) <= 1
     /\ Abs(CoordJ(g, n3) - CoordJ(p, n3)) <= 1
     /\ Abs(CoordK(g, n3) - CoordK(p, n3)) <= 1}

\* DofMap: fespaces[ip], the space of patch p: the cell of each of its true
\* DOFs, in increasing order; GetTrueVSize() is the length of the list.
PatchFESpace(p, n3) == SortedSeq(PatchCells(p, n3))
LocalTrueVSize(p, n3) == Cardinality(PatchCells(p, n3))

\* DofMap: Dof2GlobalDof[ip], real block then imaginary block (0-based).
DofMapDof2GlobalDof(p, n3) ==
  LET cells == SortedSeq(PatchCells(p, n3))
      n == GlobalTrueVSize(n3)
  IN cells \o [k \in 1 .. Len(cells) |-> cells[k] + n]

\* Local slot (1-based) of patch p's own cell among its cells.
CenterSlot(p, n3) ==
  LET cells == SortedSeq(PatchCells(p, n3))
  IN CHOOSE k \in 1 .. Len(cells) : cells[k] = p

\* ------------------------------------------------------------------- state
VARIABLES
  \* the DST object
  height, width,      \* Solver(h, w): Operator::height, Operator::width
  dim,                \* mesh->Dimension()
  nxyz,               \* <<nx, ny, nz>>
  nrpatch,
  subdomains,         \* (i,j,k) -> patch id
  fespaces,           \* patch id -> cell of each local true DOF
  Dof2GlobalDof,      \* patch id -> global indices of the local entries
  PmlMat,             \* patch id -> local operator
  PmlMatInv,          \* patch id -> factorization of the local operator
  nsweeps,
  sweeps,             \* sweep index -> sign vector
  f_orig,             \* patch id -> original source
  f_transf,           \* patch id -> sweep index -> transfer source
  \* one activation of Mult (or of the constructor) per thread
  pc, r, z, l, s, i, ip, sol_local,
  \* observation of the run
  visits,             \* thread -> patch id -> visits in this application
  nsolve,             \* thread -> local solves in this application
  delivered,          \* what the last TransferSources call did, per neighbour
  ref                 \* at most one earlier application, kept for comparison

objvars == <<height, width, dim, nxyz, nrpatch, subdomains, fespaces,
             Dof2GlobalDof, PmlMat, PmlMatInv, nsweeps, sweeps>>
bufvars == <<f_orig, f_transf>>
locvars == <<pc, r, z, l, s, i, ip, sol_local>>
obsvars == <<visits, nsolve, delivered, ref>>
vars == <<objvars, bufvars, locvars, obsvars>>

Patches == 0 .. nrpatch - 1

\* --------------------------------------------------------- local operators
\* GetPmlSystemMatrix(ip): the assembled local system matrix.  Row c of a
\* block couples cell c with the patch's own cell.
GetPmlSystemMatrix(p, n3) ==
  [n |-> LocalTrueVSize(p, n3), center |-> CenterSlot(p, n3), coupling |-> 1]

\* KLUSolver::SetOperator(*PmlMat[ip]): the factorization keeps the matrix.
KLUSetOperator(mat) == [factors |-> mat]

\* SparseMatrix::Mult(x, y): y = A x, block by block.
SparseMatrixMult(mat, x) ==
  [k \in 1 .. Len(x) |->
     LET c == ((k - 1) % mat.n) + 1
         b == (k - 1) \div mat.n
     IN IF c = mat.center THEN x[k]
        ELSE (x[k] + mat.coupling * x[b * mat.n + mat.center]) % Modulus]

\* KLUSolver::Mult(b, x): x = A^{-1} b.
KLUSolverMult(inv, b) ==
  [k \in 1 .. Len(b) |->
     LET c == ((k - 1) % inv.factors.n) + 1
         blk == (k - 1) \div inv.factors.n
     IN IF c = inv.factors.center THEN b[k]
        ELSE (b[k] + (Modulus - inv.factors.coupling)
                       * b[blk * inv.factors.n + inv.factors.center]) % Modulus]

\* ------------------------------------------------------- Getijk, GetPatchId
\* Faulty variant of Getijk: j is obtained by dividing by ny instead of nx.
GetijkDividesByNy(p) ==
  LET k0 == p \div (nxyz[1] * nxyz[2])
  IN <<(p - k0 * nxyz[1] * nxyz[2]) % nxyz[1],
       (p - k0 * nxyz[1] * nxyz[2]) \div nxyz[2],
       k0>>

Getijk(p) ==
  LET k0 == p \div (nxyz[1] * nxyz[2])
  IN <<(p - k0 * nxyz[1] * nxyz[2]) % nxyz[1],
       (p - k0 * nxyz[1] * nxyz[2]) \div nxyz[1],
       k0>>

\* GetPatchId(ijk): z = (dim==2) ? 0 : ijk[2]; subdomains(ijk[0],ijk[1],z).
GetPatchId(ij) == subdomains[<<ij[1], ij[2], IF dim = 2 THEN 0 ELSE ij[3]>>]

\* -------------------------------------------------------- GetCutOffSolution
\* nrlayers: number of element layers of the transition band.
nrlayers == 1
\* GetUniformMeshElementSize(patch mesh): one cell.
MeshElementSize == 1

\* Faulty variant of CutOffPmlh: the low side is tested with "!= 1" instead
\* of "== -1", so direction 0 gets a band on the low side.
CutOffPmlhZeroCuts(directions, nlayers) ==
  [a \in 1 .. 2 |->
     << IF directions[a] # 1 THEN MeshElementSize * nlayers ELSE 0,
        IF directions[a] = 1 THEN MeshElementSize * nlayers ELSE 0 >>]

\* pmlh(dim,2) = 0, then one side of each of the first two axes set from
\* directions: <<low, high>> per axis.
CutOffPmlh(directions, nlayers) ==
  [a \in 1 .. 2 |->
     << IF directions[a] = -1 THEN MeshElementSize * nlayers ELSE 0,
        IF directions[a] = 1 THEN MeshElementSize * nlayers ELSE 0 >>]

\* CutOffFncn at an offset o (-1, 0, 1) from the patch centre along one axis:
\* 1 in the interior, inside the band on a side whose band has positive width
\* the ramp's value one layer from the boundary.
CutOffAxis(o, h) ==
  IF o = 1 /\ h[2] > 0 THEN Half
  ELSE IF o = -1 /\ h[1] > 0 THEN Half
  ELSE 1

\* CutOffFncn(x, pmin, pmax, pmlh) at cell g of patch p: product over axes.
CutOffFncn(p, g, pmlh) ==
  (CutOffAxis(CoordI(g, nxyz) - CoordI(p, nxyz), pmlh[1])
   * CutOffAxis(CoordJ(g, nxyz) - CoordJ(p, nxyz), pmlh[2])) % Modulus

\* Faulty variant of GetCutOffSolution: only the real block is windowed, the
\* imaginary block (lines 220-223) is copied.
GetCutOffSolutionRealOnly(sol, p, directions, nlayers) ==
  LET n == Len(fespaces[p])
      pmlh == CutOffPmlh(directions, nlayers)
      cells == fespaces[p]
      cf == [c \in 1 .. n |-> CutOffFncn(p, cells[c], pmlh)]
  IN [k \in 1 .. Len(sol) |->
        IF k <= n THEN (sol[k] * cf[k]) % Modulus ELSE sol[k]]

\* GetCutOffSolution(sol, cfsol, ip, directions, nlayers, true): the real
\* block (data) and the imaginary block (&data[n]) are multiplied by the
\* window and projected; cfsol has sol's size.
GetCutOffSolution(sol, p, directions, nlayers) ==
  LET n == Len(fespaces[p])
      pmlh == CutOffPmlh(directions, nlayers)
      cells == fespaces[p]
      cf == [c \in 1 .. n |-> CutOffFncn(p, cells[c], pmlh)]
  IN [k \in 1 .. Len(sol) |-> (sol[k] * cf[((k - 1) % n) + 1]) % Modulus]

\* Faulty variant of Offsets: the diagonal neighbours left out.
OffsetsAxisOnly == <<<<-1, 0>>, <<0, -1>>, <<0, 0>>, <<0, 1>>, <<1, 0>>>>

\* ---------------------------------------------------------- TransferSources
\* The offsets in the order of the two loops: i = -1..1 outside, j = -1..1
\* inside.
Offsets == [k \in 1 .. 9 |-> <<((k - 1) \div 3) - 1, ((k - 1) % 3) - 1>>]

\* Faulty variant of Rule1Skip: "if (ddot < 0) continue", a zero dot product
\* passes.
Rule1SkipNegativeOnly(ll, di, dj) ==
  LET is == sweeps[ll][1]
      js == sweeps[ll][2]
  IN is * di + js * dj < 0

\* Rule 1: ddot = is*i + js*j, "if (ddot <= 0) continue".
Rule1Skip(ll, di, dj) ==
  LET is == sweeps[ll][1]
      js == sweeps[ll][2]
  IN is * di + js * dj <= 0

\* Rule 2: for a horizontal or vertical transfer, skip when (is,js) is the
\* negation of (il,jl); the code reads both pairs from row l of sweeps.
Rule2Skip(ll, sweep, di, dj) ==
  LET is == sweeps[ll][1]
      js == sweeps[ll][2]
  IN /\ (di = 0 \/ dj = 0)
     /\ LET il == sweeps[ll][1]
            jl == sweeps[ll][2]
        IN is = -il /\ js = -jl

\* Faulty variant of FindSweep: "for (int l = 0; l < nsweeps; l++)", the
\* scan starts at row 0 instead of the current sweep.
FindSweepFromZero(ll, sweep, di, dj) ==
  LET pass == {x \in 0 .. nsweeps - 1 :
                 ~Rule1Skip(x, di, dj) /\ ~Rule2Skip(x, sweep, di, dj)}
  IN IF pass = {} THEN nsweeps
     ELSE CHOOSE m \in pass : \A x \in pass : m <= x

\* for (int l = sweep; l < nsweeps; l++): the first l that neither rule
\* skips, nsweeps when the loop runs out.
RECURSIVE FindSweep(_, _, _, _)
FindSweep(ll, sweep, di, dj) ==
  IF ll >= nsweeps THEN nsweeps
  ELSE IF Rule1Skip(ll, di, dj) THEN FindSweep(ll + 1, sweep, di, dj)
  ELSE IF Rule2Skip(ll, sweep, di, dj) THEN FindSweep(ll + 1, sweep, di, dj)
  ELSE ll

\* Line 288: int gdofs = 2*bf->FESpace()->GetTrueVSize().
TransferGdofs == 2 * GlobalTrueVSize(nxyz)

\* The residual handed to neighbour ip1: window sol0 toward (di,dj), apply
\* PmlMat[ip0] and negate, extend by zero to the global vector, restrict to
\* ip1's DOF list.
TransferResidualFrom(ip0, ip1, cfsol0) ==
  LET res0 == VNeg(SparseMatrixMult(PmlMat[ip0], cfsol0))
      znew == SetSubVector(ZeroVec(TransferGdofs), Dof2GlobalDof[ip0], res0)
  IN GetSubVector(znew, Dof2GlobalDof[ip1])

TransferResidual(ip0, ip1, sol0, di, dj) ==
  CHOOSE res1 \in
    {TransferResidualFrom(ip0, ip1, cfsol0) :
       cfsol0 \in {Stored(GetCutOffSolution(sol0, ip0, <<di, dj>>, nrlayers))}} :
    TRUE

\* MFEM_VERIFY(f_transf[ip1][l]->Size() == res1.Size(), ...)
SizesAgree(buf, res1) == Len(buf) = Len(res1)

\* Faulty variant of AddInto: the contribution is assigned, not added.
AddIntoOverwrites(buf, res1) == res1

\* Line 357: *f_transf[ip1][l] += res1.
AddInto(buf, res1) == VAdd(buf, res1)

\* Lines 330-359 for the neighbour ip1 at offset (di,dj) and its residual
\* res1: the scan for the sweep that takes it, the size check, the addition.
\* acc is [ft, log, failed]: the transfer buffers, the record of what was
\* done and whether MFEM_VERIFY has aborted the run.
TransferDeliver(acc, sweep, ip0, ip1, di, dj, res1) ==
  LET lt == FindSweep(sweep, sweep, di, dj)
      scanned == IF lt < nsweeps THEN lt - sweep + 1 ELSE nsweeps - sweep
      entry == [off |-> <<di, dj>>, from |-> ip0, to |-> ip1,
                sweep |-> sweep, into |-> lt, scanned |-> scanned,
                res |-> res1, verified |-> TRUE]
  IN IF lt >= nsweeps
     THEN [acc EXCEPT !.log = Append(@, entry)]
     ELSE IF ~SizesAgree(acc.ft[ip1][lt], res1)
     THEN [acc EXCEPT !.log = Append(@, [entry EXCEPT !.verified = FALSE]),
                      !.failed = TRUE]
     ELSE [ft |-> [acc.ft EXCEPT ![ip1][lt] = AddInto(@, res1)],
           log |-> Append(acc.log, entry),
           failed |-> FALSE]

\* One pass of the inner loop body for offset (di,dj), lines 265-359.
TransferOne(acc, sweep, ip0, sol0, di, dj) ==
  LET ijk0 == Getijk(ip0)
      i1 == ijk0[1] + di
      j1 == ijk0[2] + dj
  IN IF acc.failed \/ i1 < 0 \/ i1 >= nxyz[1] THEN acc
     ELSE IF (di = 0 /\ dj = 0) \/ j1 < 0 \/ j1 >= nxyz[2] THEN acc
     ELSE
       LET ip1 == GetPatchId(<<i1, j1>>)
       IN CHOOSE out \in
            {TransferDeliver(acc, sweep, ip0, ip1, di, dj, res1) :
               res1 \in {Stored(TransferResidual(ip0, ip1, sol0, di, dj))}} :
            TRUE

RECURSIVE TransferLoop(_, _, _, _, _)
TransferLoop(acc, sweep, ip0, sol0, k) ==
  IF k > Len(Offsets) THEN acc
  ELSE CHOOSE out \in
         {TransferLoop(a, sweep, ip0, sol0, k + 1) :
            a \in {TransferOne(acc, sweep, ip0, sol0,
                               Offsets[k][1], Offsets[k][2])}} : TRUE

\* DST::TransferSources(sweep, ip0, sol0) on transfer buffers ft.
TransferSourcesOn(ft, sweep, ip0, sol0) ==
  TransferLoop([ft |-> ft, log |-> <<>>, failed |-> FALSE],
               sweep, ip0, sol0, 1)

\* --------------------------------------------------------------- DST::Mult
\* for (int l = 0; l < 1; l++)
SweepsIterated == 1

\* int nsteps = nx + ny - 1
NSteps == nxyz[1] + nxyz[2] - 1

\* switch (l): the j of front s and index i.
SweepJ(ll, ss, ii) ==
  CASE ll = 0 -> ss - ii
    [] ll = 1 -> ss - nxyz[1] + ii + 1
    [] ll = 2 -> nxyz[1] + ii - ss - 1
    [] OTHER  -> nxyz[1] + nxyz[2] - ii - ss - 2

\* if (j<0 || j>=ny) continue;
JOutOfRange(jj) == jj < 0 \/ jj >= nxyz[2]

\* Faulty variant of ResetTransf: the inner loop of lines 77-80 left out.
ResetTransfSkipped(ft) == ft

\* Faulty variant of ResetOrig: line 76 left out.
ResetOrigSkipped(fo) == fo

\* Lines 74-81: *f_orig[ip] = 0.0 and *f_transf[ip][i] = 0.0, sizes kept.
ResetOrig(fo) == [p \in DOMAIN fo |-> ZeroVec(Len(fo[p]))]
ResetTransf(ft) ==
  [p \in DOMAIN ft |-> [ll \in DOMAIN ft[p] |-> ZeroVec(Len(ft[p][ll]))]]

\* Lines 82-86: r.GetSubVector(*Dof2GlobalDof, *f_orig[ip]) for every patch.
ScatterOrig(fo, rr) ==
  [p \in DOMAIN fo |-> GetSubVector(rr, Dof2GlobalDof[p])]

\* Faulty variant of ZeroOutput: line 90 left out, z keeps what the caller's vector held.
ZeroOutputKept(zz) == zz

\* Line 90: z = 0.0, size kept.
ZeroOutput(zz) == ZeroVec(Len(zz))

\* Faulty variant of LocalResidual: the buffers of the later sweeps are added
\* as well.
LocalResidualAllSweeps(fo, ft, ll, p) ==
  LET RECURSIVE SumFrom(_)
      SumFrom(m) == IF m \notin DOMAIN ft[p] THEN ZeroVec(Len(fo[p]))
                    ELSE VAdd(ft[p][m], SumFrom(m + 1))
  IN VAdd(IF ll = 0 THEN fo[p] ELSE ZeroVec(Len(fo[p])), SumFrom(ll))

\* Faulty variant of LocalResidual: "res_local += *f_orig[ip]" without the
\* test of l (the statement commented out at line 136).
LocalResidualOrigAlways(fo, ft, ll, p) ==
  VAdd(VAdd(ZeroVec(Len(Dof2GlobalDof[p])), fo[p]), ft[p][ll])

\* Lines 133-137: res_local = 0, += f_orig[ip] on sweep 0, += f_transf[ip][l].
LocalResidual(fo, ft, ll, p) ==
  LET ndofs == Len(Dof2GlobalDof[p])
      res0 == ZeroVec(ndofs)
      res1 == IF ll = 0 THEN VAdd(res0, fo[p]) ELSE res0
  IN VAdd(res1, ft[p][ll])

\* Faulty variant of AheadDirections: the tests of lines 147-148 left out,
\* the first window always cuts on the high side.
AheadDirectionsAlways(ii, jj) == <<1, 1>>

\* Lines 145-148 and 152-154: the two direction vectors of the output window.
AheadDirections(ii, jj) ==
  << IF ii + 1 < nxyz[1] THEN 1 ELSE 0, IF jj + 1 < nxyz[2] THEN 1 ELSE 0 >>
BehindDirections(ii, jj) ==
  << IF ii > 0 THEN -1 ELSE 0, IF jj > 0 THEN -1 ELSE 0 >>

\* Faulty variant of CutOffAndAddOn: the windowed solution is written into z
\* at the patch's global indices (z.SetSubVector) instead of being added.
CutOffAndAddOverwrites(zz, p, ii, jj, sol) ==
  LET cf1 == GetCutOffSolution(sol, p, AheadDirections(ii, jj), nrlayers)
      cf2 == GetCutOffSolution(cf1, p, BehindDirections(ii, jj), nrlayers)
  IN SetSubVector(zz, Dof2GlobalDof[p], cf2)

\* Lines 144-159: window twice, extend by zero, z += znew.
CutOffAndAddOn(zz, p, ii, jj, sol) ==
  LET cf1 == GetCutOffSolution(sol, p, AheadDirections(ii, jj), nrlayers)
      cf2 == GetCutOffSolution(cf1, p, BehindDirections(ii, jj), nrlayers)
      znew == SetSubVector(ZeroVec(Len(zz)), Dof2GlobalDof[p], cf2)
  IN VAdd(zz, znew)

\* Faulty variant of NextIteration: the front counter s is not advanced.
NextIterationSameFront(ll, ss, ii) ==
  IF ii + 1 < nxyz[1] THEN <<ll, ss, ii + 1>> ELSE <<ll, ss, 0>>

\* Faulty variant of NextIteration: "for (l = 0; l < 2; l++)", a second sweep
\* follows the first.
NextIterationTwoSweeps(ll, ss, ii) ==
  IF ii + 1 < nxyz[1] THEN <<ll, ss, ii + 1>>
  ELSE IF ss + 1 < NSteps THEN <<ll, ss + 1, 0>>
  ELSE IF ll + 1 < SweepsIterated + 1 THEN <<ll + 1, 0, 0>>
  ELSE <<>>

\* The loop counters after the body of iteration (l, s, i): <<l, s, i>>, or
\* <<>> when the three loops are over.
NextIteration(ll, ss, ii) ==
  IF ii + 1 < nxyz[1] THEN <<ll, ss, ii + 1>>
  ELSE IF ss + 1 < NSteps THEN <<ll, ss + 1, 0>>
  ELSE IF ll + 1 < SweepsIterated THEN <<ll + 1, 0, 0>>
  ELSE <<>>

\* What Mult may be given: residuals of the operator's width.
Residuals ==
  {ZeroVec(width),
   UnitVec(width, 1),
   UnitVec(width, width \div 2),
   UnitVec(width, (width \div 2) + 1),
   VAdd(UnitVec(width, 1), UnitVec(width, width))}

\* The caller invokes Mult(r, z) with its vector z of the operator's height.
MultCall(t) ==
  /\ pc[t] = "idle"
  /\ \E rr \in Residuals : r' = [r EXCEPT ![t] = rr]
  /\ pc' = [pc EXCEPT ![t] = "reset"]
  /\ visits' = [visits EXCEPT ![t] = [p \in Patches |-> 0]]
  /\ nsolve' = [nsolve EXCEPT ![t] = 0]
  /\ delivered' = <<>>
  /\ UNCHANGED <<objvars, bufvars, z, l, s, i, ip, sol_local, ref>>

\* Faulty variant of ConstMethod: the sweep table is written through a cast.
ConstMethodCastAway ==
  /\ sweeps' = [ll \in DOMAIN sweeps |->
                  [c \in DOMAIN sweeps[ll] |-> -sweeps[ll][c]]]
  /\ UNCHANGED <<height, width, dim, nxyz, nrpatch, subdomains, fespaces,
                 Dof2GlobalDof, PmlMat, PmlMatInv, nsweeps>>

\* Mult, TransferSources and GetCutOffSolution are const member functions:
\* they assign no field of the object.
ConstMethod == UNCHANGED objvars

\* Lines 74-81.
Reset(t) ==
  /\ pc[t] = "reset"
  /\ f_orig' = ResetOrig(f_orig)
  /\ f_transf' = ResetTransf(f_transf)
  /\ pc' = [pc EXCEPT ![t] = "scatter"]
  /\ ConstMethod
  /\ UNCHANGED <<r, z, l, s, i, ip, sol_local, obsvars>>

\* Lines 82-101: scatter r, z = 0.0, enter the loops at l = 0, s = 0, i = 0.
Scatter(t) ==
  /\ pc[t] = "scatter"
  /\ f_orig' = ScatterOrig(f_orig, r[t])
  /\ z' = [z EXCEPT ![t] = ZeroOutput(@)]
  /\ l' = [l EXCEPT ![t] = 0]
  /\ s' = [s EXCEPT ![t] = 0]
  /\ i' = [i EXCEPT ![t] = 0]
  /\ pc' = [pc EXCEPT ![t] = "loop"]
  /\ ConstMethod
  /\ UNCHANGED <<f_transf, r, ip, sol_local, obsvars>>

\* Leave the body of iteration (l, s, i) of thread t by "continue" or by its
\* end: advance the loop counters, or finish.
Advance(t) ==
  \E nxt \in {NextIteration(l[t], s[t], i[t])} :
     IF nxt = <<>>
     THEN /\ pc' = [pc EXCEPT ![t] = "done"]
          /\ UNCHANGED <<l, s, i>>
     ELSE /\ pc' = [pc EXCEPT ![t] = "loop"]
          /\ l' = [l EXCEPT ![t] = nxt[1]]
          /\ s' = [s EXCEPT ![t] = nxt[2]]
          /\ i' = [i EXCEPT ![t] = nxt[3]]

\* Lines 110-140: one pass of the innermost loop up to the local solve.
LoopStep(t) ==
  /\ pc[t] = "loop"
  /\ \E jj \in {SweepJ(l[t], s[t], i[t])} :
       IF JOutOfRange(jj)
       THEN /\ Advance(t)
            /\ UNCHANGED <<ip, sol_local, visits, nsolve>>
       ELSE \E p \in {GetPatchId(<<i[t], jj>>)} :
            \E res_local \in {LocalResidual(f_orig, f_transf, l[t], p)} :
              /\ ip' = [ip EXCEPT ![t] = p]
              /\ visits' = [visits EXCEPT ![t][p] = @ + 1]
              /\ IF NormBelowThreshold(res_local)
                 THEN /\ Advance(t)
                      /\ UNCHANGED <<sol_local, nsolve>>
                 ELSE /\ sol_local' = [sol_local EXCEPT ![t] =
                                         KLUSolverMult(PmlMatInv[p], res_local)]
                      /\ nsolve' = [nsolve EXCEPT ![t] = @ + 1]
                      /\ pc' = [pc EXCEPT ![t] = "transfer"]
                      /\ UNCHANGED <<l, s, i>>
  /\ ConstMethod
  /\ UNCHANGED <<bufvars, r, z, delivered, ref>>

\* Line 142: TransferSources(l, ip, sol_local).
TransferSources(t) ==
  /\ pc[t] = "transfer"
  /\ \E res \in {TransferSourcesOn(f_transf, l[t], ip[t], sol_local[t])} :
        /\ f_transf' = res.ft
        /\ delivered' = res.log
        /\ pc' = [pc EXCEPT ![t] = IF res.failed THEN "abort" ELSE "cutoff"]
  /\ ConstMethod
  /\ UNCHANGED <<f_orig, r, z, l, s, i, ip, sol_local, visits, nsolve, ref>>

\* Lines 144-159, then the end of the loop body.
CutOffAndAdd(t) ==
  /\ pc[t] = "cutoff"
  /\ z' = [z EXCEPT ![t] =
             CutOffAndAddOn(@, ip[t], i[t], SweepJ(l[t], s[t], i[t]),
                            sol_local[t])]
  /\ Advance(t)
  /\ ConstMethod
  /\ UNCHANGED <<bufvars, r, ip, sol_local, obsvars>>

\* Mult returns; the caller may keep this application for a later comparison.
Return(t) ==
  /\ pc[t] = "done"
  /\ pc' = [pc EXCEPT ![t] = "idle"]
  /\ ref' \in {ref} \cup (IF ref = <<>> THEN {<<[r |-> r[t], z |-> z[t]]>>} ELSE {})
  /\ UNCHANGED <<objvars, bufvars, r, z, l, s, i, ip, sol_local,
                 visits, nsolve, delivered>>

\* ---------------------------------------------------------------- DST::DST
\* Mesh dimensions a caller may hand to the constructor.
Dims == {2, 3}
\* Partitions MeshPartition may return for a mesh of dimension d.
Grids(d) ==
  IF d = 2 THEN (1 .. MaxN) \X (1 .. MaxN) \X {1}
  ELSE (1 .. MaxN) \X (1 .. MaxN) \X (1 .. MaxNz)

\* Faulty variant of OperatorSize: the factor 2 of the complex unknowns left out.
OperatorSizeReal(n3) == GlobalTrueVSize(n3)

\* Line 8: Solver(2*GetTrueVSize(), 2*GetTrueVSize()).
OperatorSize(n3) == 2 * GlobalTrueVSize(n3)

\* Faulty variant of BufferSize: the factor 2 of the complex unknowns left out.
BufferSizeReal(p, n3) == LocalTrueVSize(p, n3)

\* Line 60: int n = 2*ovlp_prob->fespaces[ip]->GetTrueVSize().
BufferSize(p, n3) == 2 * LocalTrueVSize(p, n3)

\* Line 46: nsweeps = pow(2,dim).
SweepCount(d) == 2 ^ d

\* Faulty variant of SweepTable: rows 1 and 2 assigned each other's signs.
SweepTableRowsSwapped(d) ==
  [ll \in 0 .. 3 |->
     [c \in 1 .. 2 |->
        IF ll = 0 THEN 1
        ELSE IF ll = 1 /\ c = 1 THEN 1
        ELSE IF ll = 1 /\ c = 2 THEN -1
        ELSE IF ll = 2 /\ c = 1 THEN -1
        ELSE IF ll = 2 /\ c = 2 THEN 1
        ELSE -1]]

\* Lines 47-52: sweeps.SetSize(nsweeps,dim) allocates nsweeps x dim entries
\* and assigns none; then rows 0..3, columns 0 and 1, are assigned.  The
\* table holds the assigned entries: an entry outside its domain is an int
\* that was never written.
SweepTable(d) ==
  [ll \in 0 .. 3 |->
     [c \in 1 .. 2 |->
        IF ll = 0 /\ c = 1 THEN 1
        ELSE IF ll = 0 /\ c = 2 THEN 1
        ELSE IF ll = 1 /\ c = 1 THEN -1
        ELSE IF ll = 1 /\ c = 2 THEN 1
        ELSE IF ll = 2 /\ c = 1 THEN 1
        ELSE IF ll = 2 /\ c = 2 THEN -1
        ELSE IF ll = 3 /\ c = 1 THEN -1
        ELSE -1]]

\* Lines 61-66: f_orig[ip] = new Vector(n), zeroed; f_transf[ip][i] = new
\* Vector(n), not filled: it holds what the allocation held.
NewOrig(p, n3) == ZeroVec(BufferSize(p, n3))
NewTransf(p, n3, d, g) ==
  [ll \in 0 .. SweepCount(d) - 1 |-> FillVec(BufferSize(p, n3), g)]

\* ovlp_prob->Dof2GlobalDof for the partition n3.
DofMapOf(n3) ==
  [p \in 0 .. PartitionNrPatch(n3) - 1 |-> DofMapDof2GlobalDof(p, n3)]

\* The object once the constructor has returned, for a mesh of dimension d,
\* a partition n3, a DOF map dofmap and allocations that held g.
ConstructedObject(d, n3, dofmap) ==
  /\ height = OperatorSize(n3)
  /\ width = OperatorSize(n3)
  /\ dim = d
  /\ nxyz = n3
  /\ nrpatch = PartitionNrPatch(n3)
  /\ subdomains = PartitionSubdomains(n3)
  /\ fespaces = [p \in 0 .. PartitionNrPatch(n3) - 1 |-> PatchFESpace(p, n3)]
  /\ Dof2GlobalDof = dofmap
  /\ PmlMat = [p \in 0 .. PartitionNrPatch(n3) - 1 |-> GetPmlSystemMatrix(p, n3)]
  /\ PmlMatInv =
       [p \in 0 .. PartitionNrPatch(n3) - 1 |->
          KLUSetOperator(GetPmlSystemMatrix(p, n3))]
  /\ nsweeps = SweepCount(d)
  /\ sweeps = SweepTable(d)

ConstructedWith(d, n3, g, dofmap) ==
  /\ ConstructedObject(d, n3, dofmap)
  /\ f_orig = [p \in 0 .. PartitionNrPatch(n3) - 1 |-> NewOrig(p, n3)]
  /\ f_transf = [p \in 0 .. PartitionNrPatch(n3) - 1 |-> NewTransf(p, n3, d, g)]

Constructed(d, n3, g) == ConstructedWith(d, n3, g, DofMapOf(n3))

\* No activation in flight; z is the caller's vector.
NoActivation(zz) ==
  /\ pc = [t \in Threads |-> "idle"]
  /\ r = [t \in Threads |-> <<>>]
  /\ z = [t \in Threads |-> zz]
  /\ l = [t \in Threads |-> 0]
  /\ s = [t \in Threads |-> 0]
  /\ i = [t \in Threads |-> 0]
  /\ ip = [t \in Threads |-> 0]
  /\ sol_local = [t \in Threads |-> <<>>]
  /\ visits = [t \in Threads |-> <<>>]
  /\ nsolve = [t \in Threads |-> 0]
  /\ delivered = <<>>
  /\ ref = <<>>

\* ------------------------------------------- Spec: repeated Mult, one thread
\* A constructed two-dimensional preconditioner; nothing applied yet.
Init ==
  \E n3 \in Grids(2), g \in Garbage :
    /\ Constructed(2, n3, g)
    /\ NoActivation(FillVec(OperatorSize(n3), g))

Next ==
  \/ MultCall(1)
  \/ Reset(1)
  \/ Scatter(1)
  \/ LoopStep(1)
  \/ TransferSources(1)
  \/ CutOffAndAdd(1)
  \/ Return(1)

Spec == Init /\ [][Next]_vars

\* ------------------------------------------------ SpecCtor: the constructor
\* Before the constructor runs: no field is set.
InitCtor ==
  /\ height = 0 /\ width = 0 /\ dim = 0 /\ nrpatch = 0 /\ nsweeps = 0
  /\ nxyz = <<>> /\ subdomains = <<>> /\ fespaces = <<>>
  /\ Dof2GlobalDof = <<>> /\ PmlMat = <<>> /\ PmlMatInv = <<>>
  /\ sweeps = <<>> /\ f_orig = <<>> /\ f_transf = <<>>
  /\ pc = [t \in Threads |-> IF t = 1 THEN "new" ELSE "idle"]
  /\ r = [t \in Threads |-> <<>>]
  /\ z = [t \in Threads |-> <<>>]
  /\ l = [t \in Threads |-> 0]
  /\ s = [t \in Threads |-> 0]
  /\ i = [t \in Threads |-> 0]
  /\ ip = [t \in Threads |-> 0]
  /\ sol_local = [t \in Threads |-> <<>>]
  /\ visits = [t \in Threads |-> <<>>]
  /\ nsolve = [t \in Threads |-> 0]
  /\ delivered = <<>>
  /\ ref = <<>>

\* Lines 6-39: the base class sizes, the mesh dimension, the partition and
\* the DOF map; PmlMat and PmlMatInv sized, their entries not yet set.
CtorBegin(t) ==
  /\ pc[t] = "new"
  /\ \E d \in Dims : \E n3 \in Grids(d) :
       /\ height' = OperatorSize(n3)
       /\ width' = OperatorSize(n3)
       /\ dim' = d
       /\ nxyz' = n3
       /\ nrpatch' = PartitionNrPatch(n3)
       /\ subdomains' = PartitionSubdomains(n3)
       /\ fespaces' =
            [p \in 0 .. PartitionNrPatch(n3) - 1 |-> PatchFESpace(p, n3)]
       /\ Dof2GlobalDof' = DofMapOf(n3)
       /\ PmlMat' = [p \in 0 .. PartitionNrPatch(n3) - 1 |-> <<>>]
       /\ PmlMatInv' = [p \in 0 .. PartitionNrPatch(n3) - 1 |-> <<>>]
  /\ ip' = [ip EXCEPT ![t] = 0]
  /\ pc' = [pc EXCEPT ![t] = "ctor_mat"]
  /\ UNCHANGED <<nsweeps, sweeps, bufvars, r, z, l, s, i, sol_local, obsvars>>

\* Lines 40-45: one pass of the loop over the patches.
CtorMat(t) ==
  /\ pc[t] = "ctor_mat"
  /\ ip[t] < nrpatch
  /\ PmlMat' = [PmlMat EXCEPT ![ip[t]] = GetPmlSystemMatrix(ip[t], nxyz)]
  /\ PmlMatInv' = [PmlMatInv EXCEPT ![ip[t]] =
                     KLUSetOperator(GetPmlSystemMatrix(ip[t], nxyz))]
  /\ ip' = [ip EXCEPT ![t] = @ + 1]
  /\ UNCHANGED <<height, width, dim, nxyz, nrpatch, subdomains, fespaces,
                 Dof2GlobalDof, nsweeps, sweeps, bufvars,
                 pc, r, z, l, s, i, sol_local, obsvars>>

\* Lines 46-56: the sweep table; f_orig and f_transf sized.
CtorSweeps(t) ==
  /\ pc[t] = "ctor_mat"
  /\ ip[t] >= nrpatch
  /\ nsweeps' = SweepCount(dim)
  /\ sweeps' = SweepTable(dim)
  /\ f_orig' = [p \in Patches |-> <<>>]
  /\ f_transf' = [p \in Patches |-> <<>>]
  /\ ip' = [ip EXCEPT ![t] = 0]
  /\ pc' = [pc EXCEPT ![t] = "ctor_buf"]
  /\ UNCHANGED <<height, width, dim, nxyz, nrpatch, subdomains, fespaces,
                 Dof2GlobalDof, PmlMat, PmlMatInv, r, z, l, s, i, sol_local,
                 obsvars>>

\* What a fresh allocation holds: any value for the first one, the same stale
\* pattern for the ones after it.
HeapFill(t) == IF ip[t] = 0 THEN Garbage ELSE {f_transf[0][0][1]}

\* Lines 58-67: one pass of the loop over the patches.
CtorBuf(t) ==
  /\ pc[t] = "ctor_buf"
  /\ ip[t] < nrpatch
  /\ f_orig' = [f_orig EXCEPT ![ip[t]] = NewOrig(ip[t], nxyz)]
  /\ \E g \in HeapFill(t) :
       f_transf' = [f_transf EXCEPT ![ip[t]] = NewTransf(ip[t], nxyz, dim, g)]
  /\ ip' = [ip EXCEPT ![t] = @ + 1]
  /\ UNCHANGED <<objvars, pc, r, z, l, s, i, sol_local, obsvars>>

\* Line 68: the constructor returns.
CtorEnd(t) ==
  /\ pc[t] = "ctor_buf"
  /\ ip[t] >= nrpatch
  /\ ip' = [ip EXCEPT ![t] = 0]
  /\ pc' = [pc EXCEPT ![t] = "idle"]
  /\ UNCHANGED <<objvars, bufvars, r, z, l, s, i, sol_local, obsvars>>

NextCtor ==
  \/ CtorBegin(1)
  \/ CtorMat(1)
  \/ CtorSweeps(1)
  \/ CtorBuf(1)
  \/ CtorEnd(1)

SpecCtor == InitCtor /\ [][NextCtor]_vars

\* The constructor of a two-dimensional mesh ends in an initial state of Spec.
CtorReachesInit ==
  (pc[1] = "idle" /\ dim = 2) =>
     \E g \in Garbage : Constructed(2, nxyz, g)

\* --------------------------------------------- Mult as a function of r alone
\* One application run to its end on buffers of its own: the loops of lines
\* 103-162 from iteration (ll, ss, ii) on, on st = [ft, zz, failed].
RECURSIVE MultLoop(_, _, _, _, _)
MultLoop(st, fo, ll, ss, ii) ==
  LET jj == SweepJ(ll, ss, ii)
      st2 ==
        IF st.failed \/ JOutOfRange(jj) THEN st
        ELSE LET p == GetPatchId(<<ii, jj>>)
                 res_local == LocalResidual(fo, st.ft, ll, p)
             IN IF NormBelowThreshold(res_local) THEN st
                ELSE LET sol == KLUSolverMult(PmlMatInv[p], res_local)
                         tr == TransferSourcesOn(st.ft, ll, p, sol)
                     IN [ft |-> tr.ft,
                         zz |-> IF tr.failed THEN st.zz
                                ELSE CutOffAndAddOn(st.zz, p, ii, jj, sol),
                         failed |-> tr.failed]
      nxt == NextIteration(ll, ss, ii)
  IN IF nxt = <<>> THEN st2 ELSE MultLoop(st2, fo, nxt[1], nxt[2], nxt[3])

MultAlone(rr) ==
  MultLoop([ft |-> ResetTransf(f_transf), zz |-> ZeroVec(height),
            failed |-> FALSE],
           ScatterOrig(ResetOrig(f_orig), rr), 0, 0, 0).zz

\* ----------------------- SpecSweeps: the traversal of lines 105-161, any l
\* The locals of Mult at line 103, entered with sweep index l0 on the
\* residual rr.
InSweepOf(l0, rr) ==
  /\ pc = [t \in Threads |-> IF t = 1 THEN "loop" ELSE "idle"]
  /\ r = [t \in Threads |-> IF t = 1 THEN rr ELSE <<>>]
  /\ z = [t \in Threads |-> ZeroVec(height)]
  /\ l = [t \in Threads |-> IF t = 1 THEN l0 ELSE 0]
  /\ s = [t \in Threads |-> 0]
  /\ i = [t \in Threads |-> 0]
  /\ ip = [t \in Threads |-> 0]
  /\ sol_local = [t \in Threads |-> <<>>]
  /\ visits = [t \in Threads |-> IF t = 1 THEN [p \in Patches |-> 0] ELSE <<>>]
  /\ nsolve = [t \in Threads |-> 0]
  /\ delivered = <<>>
  /\ ref = <<>>

\* The state at line 103 after the reset and the scatter of r = 0, entered
\* with sweep index l0; the transfer buffers hold what the sweeps before l0
\* left: c in every entry.
InSweep(l0, c) == InSweepOf(l0, ZeroVec(width))

InitSweeps ==
  \E n3 \in Grids(2), c \in Garbage :
    /\ Constructed(2, n3, c)
    /\ \E l0 \in 0 .. SweepCount(2) - 1 : InSweep(l0, c)

NextSweeps ==
  \/ LoopStep(1)
  \/ TransferSources(1)
  \/ CutOffAndAdd(1)

SpecSweeps == InitSweeps /\ [][NextSweeps]_vars

\* ------------------ SpecTransfer: one call of TransferSources, any arguments
\* A DOF map whose list for patch q lost its imaginary block (q = -1: none).
DefectiveDofMap(n3, q) ==
  [p \in 0 .. PartitionNrPatch(n3) - 1 |->
     IF p = q
     THEN SubSeq(DofMapDof2GlobalDof(p, n3), 1, LocalTrueVSize(p, n3))
     ELSE DofMapDof2GlobalDof(p, n3)]

\* Local solutions handed to TransferSources for a patch of n true DOFs with
\* its own cell at slot c.
LocalSolutions(n, c) ==
  {UnitVec(2 * n, c), FillVec(2 * n, 1)}

\* Mult is at line 142 with sweep l0, patch p0 and local solution sol0.
AtTransfer(l0, p0, sol0) ==
  /\ pc = [t \in Threads |-> IF t = 1 THEN "transfer" ELSE "idle"]
  /\ r = [t \in Threads |-> <<>>]
  /\ z = [t \in Threads |-> ZeroVec(height)]
  /\ l = [t \in Threads |-> IF t = 1 THEN l0 ELSE 0]
  /\ s = [t \in Threads |-> 0]
  /\ i = [t \in Threads |-> 0]
  /\ ip = [t \in Threads |-> IF t = 1 THEN p0 ELSE 0]
  /\ sol_local = [t \in Threads |-> IF t = 1 THEN sol0 ELSE <<>>]
  /\ visits = [t \in Threads |-> <<>>]
  /\ nsolve = [t \in Threads |-> 0]
  /\ delivered = <<>>
  /\ ref = <<>>

InitTransfer ==
  \E n3 \in Grids(2), c \in Garbage :
  \E p0 \in 0 .. PartitionNrPatch(n3) - 1 :
  \E q \in {-1} \cup ({p0 - 1, p0 + 1} \cap (0 .. PartitionNrPatch(n3) - 1)) :
    /\ ConstructedWith(2, n3, c, DefectiveDofMap(n3, q))
    /\ \E l0 \in 0 .. SweepCount(2) - 1 :
       \E sol0 \in LocalSolutions(LocalTrueVSize(p0, n3), CenterSlot(p0, n3)) :
         AtTransfer(l0, p0, sol0)

NextTransfer == TransferSources(1)

SpecTransfer == InitTransfer /\ [][NextTransfer]_vars

\* ------------------------------ SpecConc: two calls of Mult on one object
\* Residuals of the two callers.
ConcResiduals(n3) ==
  {UnitVec(OperatorSize(n3), 1), UnitVec(OperatorSize(n3), OperatorSize(n3))}

\* Strips of at most MaxNConc patches, along x or along y.
ConcGrids ==
  {n3 \in (1 .. MaxNConc) \X (1 .. MaxNConc) \X {1} : n3[1] * n3[2] <= MaxNConc}

\* Both callers have entered Mult, each with its own r and z.
InitConc ==
  \E n3 \in ConcGrids :
    /\ Constructed(2, n3, 0)
    /\ pc = [t \in Threads |-> "reset"]
    /\ r \in [Threads -> ConcResiduals(n3)]
    /\ z = [t \in Threads |-> ZeroVec(OperatorSize(n3))]
    /\ l = [t \in Threads |-> 0]
    /\ s = [t \in Threads |-> 0]
    /\ i = [t \in Threads |-> 0]
    /\ ip = [t \in Threads |-> 0]
    /\ sol_local = [t \in Threads |-> <<>>]
    /\ visits = [t \in Threads |-> [p \in 0 .. PartitionNrPatch(n3) - 1 |-> 0]]
    /\ nsolve = [t \in Threads |-> 0]
    /\ delivered = <<>>
    /\ ref = <<>>

NextConc ==
  \E t \in Threads :
    \/ Reset(t)
    \/ Scatter(t)
    \/ LoopStep(t)
    \/ TransferSources(t)
    \/ CutOffAndAdd(t)

SpecConc == InitConc /\ [][NextConc]_vars

\* ================================================================== claims
InFlight == {"reset", "scatter", "loop", "transfer", "cutoff"}
AllTransfZero ==
  \A p \in Patches : \A ll \in 0 .. nsweeps - 1 :
     NormBelowThreshold(f_transf[p][ll])
VisitCount(t) ==
  LET RECURSIVE Sum(_)
      Sum(p) == IF p < 0 THEN 0
                ELSE (IF p \in DOMAIN visits[t] THEN visits[t][p] ELSE 0)
                     + Sum(p - 1)
  IN Sum(nrpatch - 1)

\* C1 (Spec): Mult on the zero residual gives the zero correction.  From the
\* scatter on, every patch's local residual is below the skip threshold, no
\* patch is solved, TransferSources is not called, every f_transf[p][l] is
\* zero and z is zero, up to and including the return.
C1_ZeroResidualZeroCorrection ==
  (pc[1] \in {"loop", "transfer", "cutoff", "done"} /\ r[1] = ZeroVec(width)) =>
     /\ \A p \in Patches :
          NormBelowThreshold(LocalResidual(f_orig, f_transf, 0, p))
     /\ nsolve[1] = 0
     /\ pc[1] \in {"loop", "done"}
     /\ delivered = <<>>
     /\ AllTransfZero
     /\ z[1] = ZeroVec(height)

\* Mult(0, z) has returned after visiting (and skipping) each of four
\* patches, on an object that an earlier application with a nonzero
\* correction had used.
C1_Witness ==
  /\ pc[1] = "done"
  /\ r[1] = ZeroVec(width)
  /\ nrpatch = 4
  /\ \A p \in Patches : visits[1][p] = 1
  /\ ref # <<>>
  /\ ref[1].z # ZeroVec(height)

\* C2 (Spec): two applications with the same residual return the same
\* correction, whatever was applied in between and whatever the buffers held.
C2_SameInputSameOutput ==
  (pc[1] = "done" /\ ref # <<>> /\ ref[1].r = r[1]) => z[1] = ref[1].z

\* A second application of a residual applied before has finished; it solved
\* more than one patch and its correction is not zero.
C2_Witness ==
  /\ pc[1] = "done"
  /\ ref # <<>>
  /\ ref[1].r = r[1]
  /\ nsolve[1] > 1
  /\ z[1] # ZeroVec(height)

\* C4 (Spec): the operator's input and output sizes are 2 x (global true-DOF
\* count) from construction on, for every grid; the correction vector has
\* that length in every state of every application, and so has the global
\* scratch vector of TransferSources.
C4_CorrectionSize ==
  /\ height = 2 * GlobalTrueVSize(nxyz)
  /\ width = 2 * GlobalTrueVSize(nxyz)
  /\ TransferGdofs = height
  /\ Len(z[1]) = 2 * GlobalTrueVSize(nxyz)

\* An application on a grid with nx # ny has returned a nonzero correction.
C4_Witness ==
  /\ pc[1] = "done"
  /\ nxyz[1] # nxyz[2]
  /\ z[1] # ZeroVec(Len(z[1]))
  /\ nsolve[1] > 0

\* C3 (SpecConc): two Mult calls on the same object whose steps interleave
\* each return the correction the call would return when run alone on its
\* residual, i.e. neither call's buffers are touched by the other call.
C3_InterleavedCallsIsolated ==
  \A t \in Threads : pc[t] = "done" => z[t] = MultAlone(r[t])

\* A thread that has entered Mult keeps executing it: weak fairness on the
\* steps of Mult, none on the caller's decision to call again.
MultStep(t) ==
  Reset(t) \/ Scatter(t) \/ LoopStep(t) \/ TransferSources(t) \/ CutOffAndAdd(t)
\* The caller calls Mult again and again and keeps no earlier result.
NextLive ==
  \/ MultCall(1)
  \/ Reset(1)
  \/ Scatter(1)
  \/ LoopStep(1)
  \/ TransferSources(1)
  \/ CutOffAndAdd(1)
  \/ (Return(1) /\ ref' = ref)
SpecLive == Init /\ [][NextLive]_vars /\ WF_vars(MultStep(1))

\* Iterations of the innermost loop of Mult, and the index of iteration
\* (l, s, i) among them.
LoopIterations == SweepsIterated * NSteps * nxyz[1]
IterationIndex(t) == (l[t] * NSteps + s[t]) * nxyz[1] + i[t]

\* Steps thread t has at most left before Mult returns or aborts.
Measure(t) ==
  CASE pc[t] = "reset"    -> 3 * LoopIterations + 3
    [] pc[t] = "scatter"  -> 3 * LoopIterations + 2
    [] pc[t] = "loop"     -> 3 * (LoopIterations - IterationIndex(t)) + 1
    [] pc[t] = "transfer" -> 3 * (LoopIterations - IterationIndex(t))
    [] pc[t] = "cutoff"   -> 3 * (LoopIterations - IterationIndex(t)) - 1
    [] OTHER              -> 0

\* The counts of one application: patch visits, transfers of the last visit,
\* sweep indices scanned by each transfer.
C5_Counts ==
  /\ VisitCount(1) <= SweepsIterated * nxyz[1] * nxyz[2]
  /\ Len(delivered) <= 8
  /\ \A k \in 1 .. Len(delivered) : delivered[k].scanned <= nsweeps

\* C5 (SpecLive): every Mult terminates: an application that has started
\* returns or aborts, every step of it decreases a non-negative measure that
\* starts at 3 * nsteps * nx + 3, and it makes at most nx*ny patch visits per
\* executed sweep, at most 8 transfers per visit and at most nsweeps scanned
\* sweep indices per transfer.
C5_MultTerminates ==
  /\ [](C5_Counts /\ Measure(1) >= 0)
  /\ [][pc[1] \in InFlight => Measure(1)' < Measure(1)]_vars
  /\ (pc[1] = "reset") ~> (pc[1] \in {"done", "abort"})

\* Mult has returned after visiting and solving every patch of a 3 x 3 grid,
\* the last visit having made a transfer that scanned all nsweeps indices.
C5_Witness ==
  /\ pc[1] = "done"
  /\ nrpatch = 9
  /\ VisitCount(1) = nxyz[1] * nxyz[2]
  /\ nsolve[1] = nrpatch
  /\ \E k \in 1 .. Len(delivered) : delivered[k].scanned = nsweeps

\* C6 (SpecCtor): construction detects configuration errors: whenever the
\* constructor has returned an object, every one of its nsweeps sweeps has a
\* defined sign vector with one component per dimension of the mesh.
C6_NoUndefinedSweepRow ==
  pc[1] = "idle" =>
     \A ll \in 0 .. nsweeps - 1 :
        /\ ll \in DOMAIN sweeps
        /\ DOMAIN sweeps[ll] = 1 .. dim

\* Every Dof2GlobalDof[p] has size 2 x (local true-DOF count of p).
DofMapsConsistent ==
  \A p \in Patches : Len(Dof2GlobalDof[p]) = 2 * Len(fespaces[p])

\* Entry e of the transfer record reached line 355 with a residual whose size
\* differs from the size of its target buffer.
MisSized(e) ==
  e.into < nsweeps /\ Len(e.res) # Len(f_transf[e.to][e.into])

\* C7 (SpecTransfer): a transfer residual whose size differs from the size
\* of its target buffer aborts the run at the check, before the addition: it
\* is the last transfer made and no step changes a buffer except by adding a
\* contribution of the buffer's size that passed the check; and when every
\* DOF map has twice the local true-DOF count the check never fires.
C7_SizeCheckBeforeAddition ==
  /\ [](/\ DofMapsConsistent => pc[1] # "abort"
        /\ pc[1] = "abort" <=>
             \E k \in 1 .. Len(delivered) : ~delivered[k].verified
        /\ \A k \in 1 .. Len(delivered) :
             /\ MisSized(delivered[k]) <=> ~delivered[k].verified
             /\ ~delivered[k].verified => k = Len(delivered))
  /\ [][\A p \in Patches : \A ll \in 0 .. nsweeps - 1 :
          f_transf'[p][ll] # f_transf[p][ll] =>
             /\ Len(f_transf'[p][ll]) = Len(f_transf[p][ll])
             /\ \E k \in 1 .. Len(delivered') :
                  /\ delivered'[k].to = p
                  /\ delivered'[k].into = ll
                  /\ delivered'[k].verified
                  /\ Len(delivered'[k].res) = Len(f_transf[p][ll])
                  /\ f_transf'[p][ll] = VAdd(f_transf[p][ll], delivered'[k].res)
       ]_vars

\* TransferSources has aborted on a non-zero mis-sized residual after an
\* earlier transfer of the same call was added, and the mis-sized residual's
\* target buffer still holds what it held before the call.
C7_Witness ==
  /\ pc[1] = "abort"
  /\ Len(delivered) > 1
  /\ delivered[1].verified /\ delivered[1].into < nsweeps
  /\ LET e == delivered[Len(delivered)]
     IN /\ MisSized(e)
        /\ ~NormBelowThreshold(e.res)
        /\ \E g \in Garbage :
             f_transf[e.to][e.into] = FillVec(BufferSize(e.to, nxyz), g)

\* C8 (Spec): no step of an application in flight changes what the
\* constructor built (the sizes, the partition, the patch id table, the DOF
\* maps, PmlMat, PmlMatInv, nsweeps, the sweep table) or the input r: only
\* f_orig, f_transf, the output z and the locals of Mult change.
C8_ConstructedStateReadOnly ==
  [][pc[1] \in InFlight =>
       /\ sweeps' = sweeps /\ nsweeps' = nsweeps
       /\ PmlMat' = PmlMat /\ PmlMatInv' = PmlMatInv
       /\ subdomains' = subdomains /\ nxyz' = nxyz /\ nrpatch' = nrpatch
       /\ Dof2GlobalDof' = Dof2GlobalDof /\ fespaces' = fespaces
       /\ height' = height /\ width' = width /\ dim' = dim
       /\ r' = r
    ]_vars

\* Mult has returned a non-zero correction after writing f_orig and f_transf,
\* and the object is as the constructor left it.
C8_Witness ==
  /\ pc[1] = "done"
  /\ nsolve[1] > 1
  /\ z[1] # ZeroVec(height)
  /\ ~AllTransfZero
  /\ \E p \in Patches : ~NormBelowThreshold(f_orig[p])
  /\ sweeps = SweepTable(dim)
  /\ PmlMat = [p \in Patches |-> GetPmlSystemMatrix(p, nxyz)]
  /\ Dof2GlobalDof = DofMapOf(nxyz)

\* C9 (SpecTransfer): Rule 2: whatever sweep index TransferSources is given,
\* a contribution along an axis-aligned offset (di = 0 or dj = 0) is never
\* added to the buffer of a sweep whose sign vector is the exact negation of
\* the given sweep's sign vector.
C9_NoReversalAxisAligned ==
  \A k \in 1 .. Len(delivered) :
     LET e == delivered[k]
     IN (e.into < nsweeps /\ e.verified /\ (e.off[1] = 0 \/ e.off[2] = 0)) =>
          ~(/\ sweeps[e.into][1] = -sweeps[e.sweep][1]
            /\ sweeps[e.into][2] = -sweeps[e.sweep][2])

UpstreamNeighbours(p, ll) ==
  LET ijk == Getijk(p)
  IN {GetPatchId(<<ijk[1] - Offsets[k][1], ijk[2] - Offsets[k][2]>>) :
        k \in {kk \in DOMAIN Offsets :
                 /\ ~Rule1Skip(ll, Offsets[kk][1], Offsets[kk][2])
                 /\ ijk[1] - Offsets[kk][1] \in 0 .. nxyz[1] - 1
                 /\ ijk[2] - Offsets[kk][2] \in 0 .. nxyz[2] - 1}}

OffsetBetween(p0, p1) ==
  <<Getijk(p1)[1] - Getijk(p0)[1], Getijk(p1)[2] - Getijk(p0)[2]>>

\* ddot of line 337 for offset off and row ll of the sweep table.
Ddot(ll, off) == sweeps[ll][1] * off[1] + sweeps[ll][2] * off[2]

\* C12 (SpecTransfer): Rule 1.  Whenever TransferSources adds a contribution
\* with offset (di,dj) into f_transf[p1][l'], di*sweeps(l',0) +
\* dj*sweeps(l',1) is strictly positive: every recorded delivery has a
\* positive dot product with the sweep that receives it, and a step changes
\* a buffer f_transf[p1][l'] only if the offset from the solved patch to p1
\* has a positive dot product with row l'.
C12_Rule1PositiveDot ==
  /\ [](\A k \in DOMAIN delivered :
          delivered[k].into < nsweeps =>
             Ddot(delivered[k].into, delivered[k].off) > 0)
  /\ [][\A p \in Patches : \A ll \in 0 .. nsweeps - 1 :
          f_transf'[p][ll] # f_transf[p][ll] =>
             Ddot(ll, OffsetBetween(ip[1], p)) > 0]_vars

\* A call has delivered to a later sweep than its own, after Rule 1 refused
\* the rows before it, and the receiving buffer holds the contribution.
C12_Witness ==
  /\ pc[1] = "cutoff"
  /\ \E k \in DOMAIN delivered :
       /\ delivered[k].into < nsweeps
       /\ delivered[k].into > delivered[k].sweep
       /\ ~NormBelowThreshold(delivered[k].res)
       /\ ~NormBelowThreshold(f_transf[delivered[k].to][delivered[k].into])

\* The transfer rule of the specification (section 4.5, step d): row ll may
\* receive a contribution of offset off computed in sweep `sweep` when the
\* dot product is strictly positive (Rule 1) and, for a horizontal or
\* vertical offset, row ll is not the negation of row `sweep` (Rule 2).
Admissible(ll, sweep, off) ==
  /\ Ddot(ll, off) > 0
  /\ (off[1] = 0 \/ off[2] = 0) =>
        ~(sweeps[ll][1] = -sweeps[sweep][1] /\ sweeps[ll][2] = -sweeps[sweep][2])

\* The least admissible index l' with sweep <= l' < nsweeps, nsweeps when
\* there is none.
EarliestAdmissible(sweep, off) ==
  LET adm == {ll \in sweep .. nsweeps - 1 : Admissible(ll, sweep, off)}
  IN IF adm = {} THEN nsweeps
     ELSE CHOOSE ll \in adm : \A m \in adm : ll <= m

\* What every transfer buffer held before the call: the call never writes a
\* buffer of the solved patch itself.
BufferBefore(p, ll) == FillVec(Len(f_transf[p][ll]), f_transf[ip[1]][0][1])

\* C13 (SpecTransfer): earliest admissible sweep.  After a call of
\* TransferSources made in sweep l, for every neighbour p1 the contribution
\* has been added to f_transf[p1][l'] for the least l' with l <= l' < nsweeps
\* that satisfies Rule 1 and Rule 2, and to no other buffer of p1; when no
\* such l' exists every buffer of p1 is as it was.
C13_EarliestAdmissibleSweep ==
  pc[1] = "cutoff" =>
    \A k \in DOMAIN delivered :
       \A ll \in 0 .. nsweeps - 1 :
          f_transf[delivered[k].to][ll] =
             IF ll = EarliestAdmissible(delivered[k].sweep, delivered[k].off)
             THEN VAdd(BufferBefore(delivered[k].to, ll), delivered[k].res)
             ELSE BufferBefore(delivered[k].to, ll)

\* What patch q hands to its neighbour p in sweep ll, recomputed from the
\* buffers of q: nothing when q's local residual is below the threshold
\* (line 139), else the transfer residual of q's local solution (lines
\* 140-142 and 282-304).
ContributionTo(q, p, ll) ==
  LET res_local == LocalResidual(f_orig, f_transf, ll, q)
      off == OffsetBetween(q, p)
  IN IF NormBelowThreshold(res_local)
     THEN ZeroVec(Len(Dof2GlobalDof[p]))
     ELSE TransferResidual(q, p, KLUSolverMult(PmlMatInv[q], res_local),
                           off[1], off[2])

\* The sum over the offsets k.. of the contributions to p in sweep ll from
\* the in-grid neighbours p - (di,dj) whose offset has a positive dot product
\* with row ll.
RECURSIVE SumOfContributions(_, _, _)
SumOfContributions(p, ll, k) ==
  IF k > Len(Offsets) THEN ZeroVec(Len(Dof2GlobalDof[p]))
  ELSE LET i1 == Getijk(p)[1] - Offsets[k][1]
           j1 == Getijk(p)[2] - Offsets[k][2]
           rest == SumOfContributions(p, ll, k + 1)
       IN IF /\ Ddot(ll, Offsets[k]) > 0
             /\ i1 \in 0 .. nxyz[1] - 1
             /\ j1 \in 0 .. nxyz[2] - 1
          THEN VAdd(ContributionTo(GetPatchId(<<i1, j1>>), p, ll), rest)
          ELSE rest

\* The upstream neighbours of p in sweep ll that hand it something non-zero.
Contributors(p, ll) ==
  {q \in UpstreamNeighbours(p, ll) :
     ~NormBelowThreshold(ContributionTo(q, p, ll))}

\* C14 (Spec): delivery accumulates.  From the visit of patch p in sweep l
\* on, f_transf[p][l] holds the sum of the contributions of all its upstream
\* neighbours, each recomputed from that neighbour's own residual: no
\* delivery has overwritten an earlier one and none is missing.
C14_DeliveryAccumulates ==
  pc[1] \in {"loop", "transfer", "cutoff", "done"} =>
     \A p \in Patches :
        visits[1][p] > 0 =>
           f_transf[p][l[1]] = SumOfContributions(p, l[1], 1)

\* A patch is being visited whose buffer has received non-zero contributions
\* from three upstream neighbours (patch (1,1) from (0,0), (0,1) and (1,0)),
\* and the buffer differs from each of them.
C14_Witness ==
  /\ pc[1] = "transfer"
  /\ Cardinality(Contributors(ip[1], l[1])) = 3
  /\ \A q \in Contributors(ip[1], l[1]) :
        f_transf[ip[1]][l[1]] # ContributionTo(q, ip[1], l[1])

\* The in-grid offsets around patch p, in the order of the loops of lines
\* 263-271.
InGridOffsets(p) ==
  {k \in DOMAIN Offsets :
     /\ Offsets[k] # <<0, 0>>
     /\ Getijk(p)[1] + Offsets[k][1] \in 0 .. nxyz[1] - 1
     /\ Getijk(p)[2] + Offsets[k][2] \in 0 .. nxyz[2] - 1}

\* C15 (Spec): transfer-rule coverage.  A call of TransferSources made in
\* sweep 0 handles every in-grid offset and delivers (1,0), (0,1), (1,1) to
\* sweep 0, (-1,0), (-1,1) to sweep 1, (0,-1), (1,-1) to sweep 2 and (-1,-1)
\* to sweep 3, so nothing is dropped; and on the 2 x 2 grid, after one
\* application of a residual that is non-zero only at the DOF of corner patch
\* (0,0), f_transf of the diagonal neighbour (1,1) for sweep 0 holds a
\* non-zero contribution from (0,0).
C15_TransferRuleCoverage ==
  LET Target(off) ==
        CASE off \in {<<1, 0>>, <<0, 1>>, <<1, 1>>} -> 0
          [] off \in {<<-1, 0>>, <<-1, 1>>} -> 1
          [] off \in {<<0, -1>>, <<1, -1>>} -> 2
          [] OTHER -> 3
      p00 == GetPatchId(<<0, 0>>)
      p11 == GetPatchId(<<1, 1>>)
  IN /\ \A k \in DOMAIN delivered :
          delivered[k].sweep = 0 =>
             /\ delivered[k].into = Target(delivered[k].off)
             /\ delivered[k].verified
     /\ (pc[1] = "cutoff" /\ l[1] = 0) =>
          \A k \in InGridOffsets(ip[1]) :
             \E m \in DOMAIN delivered :
                /\ delivered[m].off = Offsets[k]
                /\ delivered[m].from = ip[1]
     /\ (pc[1] = "done" /\ nxyz = <<2, 2, 1>> /\ r[1] = UnitVec(width, 1)) =>
          /\ ~NormBelowThreshold(ContributionTo(p00, p11, 0))
          /\ f_transf[p11][0] = SumOfContributions(p11, 0, 1)
          /\ ~NormBelowThreshold(f_transf[p11][0])

\* An application of the corner residual on the 2 x 2 grid has returned:
\* patch (1,1) was visited with a non-zero buffer for sweep 0, and its own
\* call of TransferSources has delivered to the sweeps 1, 2 and 3.
C15_Witness ==
  /\ pc[1] = "done"
  /\ nxyz = <<2, 2, 1>>
  /\ r[1] = UnitVec(width, 1)
  /\ visits[1][GetPatchId(<<1, 1>>)] = 1
  /\ ~NormBelowThreshold(f_transf[GetPatchId(<<1, 1>>)][0])
  /\ {delivered[k].into : k \in DOMAIN delivered} = 1 .. 3
  /\ \A k \in DOMAIN delivered : delivered[k].from = GetPatchId(<<1, 1>>)

\* C16 (Spec): reset.  When the loops of lines 74-81 are over, before the
\* scatter and before any solve or transfer of this application, f_orig[p]
\* and f_transf[p][l] are zero for every patch p and every sweep l in
\* 0..nsweeps-1: nothing a previous application (or the allocation) left in
\* them remains.
C16_ResetZeroesAllBuffers ==
  pc[1] = "scatter" =>
     /\ nsolve[1] = 0 /\ delivered = <<>>
     /\ \A p \in Patches :
          /\ NormBelowThreshold(f_orig[p])
          /\ DOMAIN f_transf[p] = 0 .. nsweeps - 1
          /\ \A ll \in 0 .. nsweeps - 1 : NormBelowThreshold(f_transf[p][ll])

\* A second application is past its reset, after a first one that returned
\* a non-zero correction (and so left non-zero sources and transfers).
C16_Witness ==
  /\ pc[1] = "scatter"
  /\ ref # <<>>
  /\ ref[1].z # ZeroVec(height)
  /\ nrpatch > 1

\* How often f_transf[p][ll] has been added into a local residual in this
\* application: line 137 reads f_transf[ip][l] for the visited patch and the
\* running sweep index only.
ConsumedCount(p, ll) == IF ll = l[1] THEN visits[1][p] ELSE 0

\* C17 as stated (Spec): when an application returns, every transfer buffer
\* f_transf[p][l], l in 0..nsweeps-1, has been consumed exactly once.
C17_EachBufferConsumedOnce ==
  pc[1] = "done" =>
     \A p \in Patches : \A ll \in 0 .. nsweeps - 1 : ConsumedCount(p, ll) = 1

\* C17 as amended (Spec): within one application f_transf[p][0] is consumed
\* exactly once, at the visit of p in sweep 0, and f_transf[p][l] for l >= 1
\* not at all; no buffer is read at another point: the residual that is
\* solved, and the one that is skipped, is f_orig[p] plus f_transf[p][0] of
\* the visited patch and nothing else.
C17_Sweep0BufferConsumedOnce ==
  /\ [](pc[1] \in {"loop", "transfer", "cutoff", "done"} =>
          \A p \in Patches : \A ll \in 0 .. nsweeps - 1 :
             /\ ConsumedCount(p, ll) <= 1
             /\ ll >= 1 => ConsumedCount(p, ll) = 0
             /\ (pc[1] = "done" /\ ll = 0) => ConsumedCount(p, ll) = 1)
  /\ [][(pc[1] = "loop" /\ visits'[1] # visits[1]) =>
          /\ visits'[1] = [visits[1] EXCEPT ![ip'[1]] = @ + 1]
          /\ IF pc'[1] = "transfer"
             THEN sol_local'[1] =
                    KLUSolverMult(PmlMatInv[ip'[1]],
                                  VAdd(f_orig[ip'[1]], f_transf[ip'[1]][0]))
             ELSE NormBelowThreshold(
                    VAdd(f_orig[ip'[1]], f_transf[ip'[1]][0]))]_vars

\* An application has returned after visiting every patch of a grid of
\* several patches once, and a buffer of a later sweep holds a contribution
\* nobody consumed.
C17_Witness ==
  /\ pc[1] = "done"
  /\ nrpatch > 1
  /\ \A p \in Patches : visits[1][p] = 1
  /\ \E p \in Patches : \E ll \in 1 .. nsweeps - 1 :
        ~NormBelowThreshold(f_transf[p][ll])

\* One application in which nothing is ever routed to a later sweep: one
\* buffer per patch, fed only through the offsets (1,0), (0,1), (1,1) by the
\* patches of the earlier fronts.  st = [ft0, zz], fronts from (ss, ii) on.
RECURSIVE SweepZeroLoop(_, _, _, _)
SweepZeroLoop(st, fo, ss, ii) ==
  LET jj == ss - ii
      st2 ==
        IF JOutOfRange(jj) THEN st
        ELSE
          LET p == GetPatchId(<<ii, jj>>)
              res_local == VAdd(fo[p], st.ft0[p])
          IN IF NormBelowThreshold(res_local) THEN st
             ELSE
               LET sol == Stored(KLUSolverMult(PmlMatInv[p], res_local))
                   Fed(q) ==
                     LET off == OffsetBetween(p, q)
                     IN IF off \in {<<1, 0>>, <<0, 1>>, <<1, 1>>}
                        THEN VAdd(st.ft0[q],
                                  TransferResidual(p, q, sol, off[1], off[2]))
                        ELSE st.ft0[q]
               IN [ft0 |-> [q \in Patches |-> Stored(Fed(q))],
                   zz |-> Stored(CutOffAndAddOn(st.zz, p, ii, jj, sol))]
  IN IF ii + 1 < nxyz[1] THEN SweepZeroLoop(st2, fo, ss, ii + 1)
     ELSE IF ss + 1 < NSteps THEN SweepZeroLoop(st2, fo, ss + 1, 0)
     ELSE st2

SweepZeroOnly(rr) ==
  SweepZeroLoop([ft0 |-> [p \in Patches |-> ZeroVec(Len(Dof2GlobalDof[p]))],
                 zz |-> ZeroVec(height)],
                [p \in Patches |-> GetSubVector(rr, Dof2GlobalDof[p])],
                0, 0).zz

\* C18 (Spec): one application iterates only sweep 0 and visits each patch
\* at most once; what TransferSources routes to the sweeps 1..nsweeps-1 is
\* added to those buffers and stays there untouched until the call returns;
\* it is never read: the returned z is the z of an application in which
\* nothing is routed to a later sweep at all.
C18_LaterSweepsStoredNeverRead ==
  /\ [](pc[1] \in {"loop", "transfer", "cutoff", "done"} =>
          /\ l[1] = 0
          /\ \A p \in Patches : visits[1][p] <= 1)
  /\ [](pc[1] = "done" => z[1] = SweepZeroOnly(r[1]))
  /\ [][pc[1] \in {"loop", "transfer", "cutoff"} =>
          \A p \in Patches : \A ll \in 1 .. nsweeps - 1 :
             LET got == {k \in DOMAIN delivered' :
                           /\ pc[1] = "transfer"
                           /\ delivered'[k].to = p
                           /\ delivered'[k].into = ll}
             IN /\ Cardinality(got) <= 1
                /\ \A k \in got :
                      f_transf'[p][ll] = VAdd(f_transf[p][ll], delivered'[k].res)
                /\ got = {} => f_transf'[p][ll] = f_transf[p][ll]]_vars

\* An application on several patches has returned a non-zero correction
\* while contributions sit in the buffers of all three later sweeps.
C18_Witness ==
  /\ pc[1] = "done"
  /\ z[1] # ZeroVec(height)
  /\ \A ll \in 1 .. nsweeps - 1 :
        \E p \in Patches : ~NormBelowThreshold(f_transf[p][ll])

\* ------------- SpecSources: Mult, and the traversal entered at any sweep l
\* A constructed object with nothing applied yet, or Mult at line 103 with
\* sweep index l0 after the reset and the scatter of a residual rr, the
\* transfer buffers holding what the sweeps before l0 left (c everywhere).
InitSources ==
  \/ Init
  \/ \E n3 \in Grids(2), c \in Garbage :
       /\ ConstructedObject(2, n3, DofMapOf(n3))
       /\ f_transf = [p \in 0 .. PartitionNrPatch(n3) - 1 |-> NewTransf(p, n3, 2, c)]
       /\ \E l0 \in 0 .. SweepCount(2) - 1 :
          \E rr \in {UnitVec(OperatorSize(n3), 1),
                     FillVec(OperatorSize(n3), 1)} :
            /\ f_orig = [p \in 0 .. PartitionNrPatch(n3) - 1 |->
                           GetSubVector(rr, DofMapDof2GlobalDof(p, n3))]
            /\ InSweepOf(l0, rr)

SpecSources == InitSources /\ [][Next]_vars

\* C19 (SpecSources): f_orig[p] enters the local residual of a visited patch
\* in sweep 0 and in no sweep l >= 1: the residual that is solved or skipped
\* is f_orig[p] + f_transf[p][0] in sweep 0 and f_transf[p][l] alone
\* otherwise; sweep 0 visits a patch at most once, so f_orig[p] enters at
\* most once per application.  f_orig gets its value in the scatter step (the
\* reset before it only zeroes it) and from there to the return it is the
\* restriction of the input residual r to p's DOF list.
C19_OriginalSourceOnlyInSweepZero ==
  /\ [](pc[1] \in {"loop", "transfer", "cutoff", "done"} =>
          /\ \A p \in Patches : f_orig[p] = GetSubVector(r[1], Dof2GlobalDof[p])
          /\ l[1] = 0 => \A p \in Patches : visits[1][p] <= 1)
  /\ [][/\ f_orig' # f_orig => pc[1] \in {"reset", "scatter"}
        /\ (pc[1] = "scatter" /\ pc'[1] = "loop") =>
              \A p \in Patches : f_orig'[p] = GetSubVector(r[1], Dof2GlobalDof[p])
        /\ (pc[1] = "loop" /\ visits'[1] # visits[1]) =>
              LET p == ip'[1]
                  entered == IF l[1] = 0 THEN VAdd(f_orig[p], f_transf[p][l[1]])
                             ELSE f_transf[p][l[1]]
              IN IF pc'[1] = "transfer"
                 THEN sol_local'[1] = KLUSolverMult(PmlMatInv[p], entered)
                 ELSE NormBelowThreshold(entered)]_vars

\* A patch has been solved in a sweep l >= 1 while its original source was
\* non-zero, and the solution is not the one the original source would have
\* given.
C19_Witness ==
  /\ pc[1] = "transfer"
  /\ l[1] >= 1
  /\ ~NormBelowThreshold(f_orig[ip[1]])
  /\ sol_local[1] # KLUSolverMult(PmlMatInv[ip[1]],
                                  VAdd(f_orig[ip[1]], f_transf[ip[1]][l[1]]))

\* C20 (SpecSources): skip fast-path.  When the local residual of the visited
\* patch p in sweep l (f_orig[p] if l = 0, plus f_transf[p][l]) is below the
\* threshold, the visit changes nothing: no local solve, no call of
\* TransferSources, no f_transf entry of any patch modified, z unchanged; the
\* loop goes on to the next iteration.
C20_SkipChangesNothing ==
  [][(pc[1] = "loop" /\ visits'[1] # visits[1]) =>
       LET p == ip'[1]
           entered == IF l[1] = 0 THEN VAdd(f_orig[p], f_transf[p][l[1]])
                      ELSE f_transf[p][l[1]]
       IN (\A k \in DOMAIN entered : entered[k] = 0) =>
             /\ nsolve'[1] = nsolve[1]
             /\ sol_local' = sol_local
             /\ pc'[1] \in {"loop", "done"}
             /\ delivered' = delivered
             /\ f_transf' = f_transf
             /\ f_orig' = f_orig
             /\ z' = z]_vars

\* An application that has solved a patch and built a non-zero correction
\* has also visited a patch without solving it.
C20_Witness ==
  /\ pc[1] \in {"loop", "done"}
  /\ nsolve[1] >= 1
  /\ VisitCount(1) > nsolve[1]
  /\ z[1] # ZeroVec(height)
  /\ ~AllTransfZero

\* The patches one grid step away from p, p itself excluded.
AdjacentPatches(p) ==
  {q \in Patches \ {p} :
     /\ Abs(Getijk(q)[1] - Getijk(p)[1]) <= 1
     /\ Abs(Getijk(q)[2] - Getijk(p)[2]) <= 1}

\* C21 (SpecSources): neighbour routing.  TransferSources is called right
\* after the local solve and before the output windowing (z is still what it
\* was); the call handles exactly the offsets (di,dj) in {-1,0,1}^2 minus
\* (0,0) whose target lies in the grid, one per adjacent patch, and never
\* targets p0 itself, a position outside the grid or a patch further away;
\* only buffers of adjacent patches change.
C21_NeighbourRouting ==
  /\ [](\A k \in DOMAIN delivered :
          /\ delivered[k].off \in ((-1 .. 1) \X (-1 .. 1)) \ {<<0, 0>>}
          /\ delivered[k].to \in AdjacentPatches(delivered[k].from)
          /\ Getijk(delivered[k].to)[1] =
                Getijk(delivered[k].from)[1] + delivered[k].off[1]
          /\ Getijk(delivered[k].to)[2] =
                Getijk(delivered[k].from)[2] + delivered[k].off[2])
  /\ [](pc[1] = "cutoff" =>
          /\ \A k \in DOMAIN delivered : delivered[k].from = ip[1]
          /\ {delivered[k].to : k \in DOMAIN delivered} = AdjacentPatches(ip[1])
          /\ Len(delivered) = Cardinality(AdjacentPatches(ip[1])))
  /\ [][/\ pc'[1] = "transfer" => pc[1] = "loop" /\ nsolve'[1] = nsolve[1] + 1
        /\ pc'[1] = "cutoff" => pc[1] = "transfer"
        /\ pc[1] = "transfer" =>
              /\ z' = z
              /\ pc'[1] = "cutoff"
              /\ \A q \in Patches :
                    f_transf'[q] # f_transf[q] => q \in AdjacentPatches(ip[1])
        /\ (pc[1] \in {"loop", "transfer", "cutoff"} /\ z' # z) =>
              pc[1] = "cutoff"]_vars

\* The centre patch of a 3 x 3 grid has been routed to its eight neighbours
\* with non-zero residuals; the windowing has not started.
C21_Witness ==
  /\ pc[1] = "cutoff"
  /\ nxyz = <<3, 3, 1>>
  /\ Len(delivered) = 8
  /\ \A k \in DOMAIN delivered : ~NormBelowThreshold(delivered[k].res)

\* The body of the innermost loop (lines 124-159) for patch p in sweep ll, on
\* st = [ft, zz]: the transfer buffers and the output vector.
VisitPatch(st, ll, p) ==
  LET res_local == LocalResidual(f_orig, st.ft, ll, p)
  IN IF NormBelowThreshold(res_local) THEN st
     ELSE LET sol == Stored(KLUSolverMult(PmlMatInv[p], res_local))
              tr == TransferSourcesOn(st.ft, ll, p, sol)
          IN [ft |-> tr.ft,
              zz |-> Stored(CutOffAndAddOn(st.zz, p, Getijk(p)[1],
                                           Getijk(p)[2], sol))]

\* The body applied to the patches of the sequence ord from position k on.
RECURSIVE VisitInOrder(_, _, _, _)
VisitInOrder(st, ll, ord, k) ==
  IF k > Len(ord) THEN st
  ELSE CHOOSE out \in
         {VisitInOrder(st2, ll, ord, k + 1) :
            st2 \in {VisitPatch(st, ll, ord[k])}} : TRUE

\* The indices i of front ss in sweep ll that the test of line 120 lets
\* through, and their patches in the order of the loop of line 110.
FrontIndices(ll, ss) ==
  {ii \in 0 .. nxyz[1] - 1 : ~JOutOfRange(SweepJ(ll, ss, ii))}
FrontInLoopOrder(ll, ss) ==
  LET idx == SortedSeq(FrontIndices(ll, ss))
  IN [k \in 1 .. Len(idx) |-> GetPatchId(<<idx[k], SweepJ(ll, ss, idx[k])>>)]

\* Every order in which the patches of the sequence ord can be taken.
Orders(ord) ==
  {f \in [1 .. Len(ord) -> 1 .. Len(ord)] :
     \A a, b \in 1 .. Len(ord) : a # b => f[a] # f[b]}

\* C22 (SpecSweeps): front independence.  At the start of front s of sweep
\* l, two adjacent patches of the front have an offset with dot product zero
\* against sweep l; processing the patches of the front in any order gives
\* the transfer buffers and the z that the loop order gives, and leaves
\* f_transf[q][l] of every patch q of the front as it was.
C22_FrontIndependence ==
  (pc[1] = "loop" /\ i[1] = 0) =>
     LET front == FrontInLoopOrder(l[1], s[1])
         st0 == [ft |-> f_transf, zz |-> z[1]]
         inorder == VisitInOrder(st0, l[1], front, 1)
     IN /\ \A a, b \in DOMAIN front :
             (a # b /\ front[b] \in AdjacentPatches(front[a])) =>
                Ddot(l[1], OffsetBetween(front[a], front[b])) = 0
        /\ \A a \in DOMAIN front :
             inorder.ft[front[a]][l[1]] = f_transf[front[a]][l[1]]
        /\ \A f \in Orders(front) :
             VisitInOrder(st0, l[1], [k \in DOMAIN front |-> front[f[k]]], 1)
                = inorder

\* After the solves of an earlier front, a front of at least two patches is
\* about to be processed, every one of them with a non-zero local residual, so each is solved and transfers to
\* the others.
C22_Witness ==
  /\ pc[1] = "loop" /\ i[1] = 0
  /\ nsolve[1] >= 1
  /\ Len(FrontInLoopOrder(l[1], s[1])) >= 2
  /\ \A a \in DOMAIN FrontInLoopOrder(l[1], s[1]) :
        ~NormBelowThreshold(
           LocalResidual(f_orig, f_transf, l[1], FrontInLoopOrder(l[1], s[1])[a]))

\* C23 (SpecCtor): sweep table.  After construction the table has 2^dim rows
\* of dim entries, each entry written and equal to +1 or -1, the rows
\* pairwise distinct; in dimension 2 these are the four rows (+1,+1),
\* (-1,+1), (+1,-1), (-1,-1) at the indices 0..3.
C23_SweepTableDefined ==
  pc[1] = "idle" =>
     /\ nsweeps = 2 ^ dim
     /\ DOMAIN sweeps = 0 .. nsweeps - 1
     /\ \A ll \in DOMAIN sweeps :
          /\ DOMAIN sweeps[ll] = 1 .. dim
          /\ \A c \in DOMAIN sweeps[ll] : sweeps[ll][c] \in {-1, 1}
     /\ \A a, b \in DOMAIN sweeps : a # b => sweeps[a] # sweeps[b]
     /\ dim = 2 =>
          sweeps = [ll \in 0 .. 3 |->
                      CASE ll = 0 -> <<1, 1>>
                        [] ll = 1 -> <<-1, 1>>
                        [] ll = 2 -> <<1, -1>>
                        [] OTHER -> <<-1, -1>>]

\* 1 when the grid has a patch at (ii, jj), else 0.
HasPatch(ii, jj) == IF <<ii, jj, 0>> \in DOMAIN subdomains THEN 1 ELSE 0

\* C24 (Spec): output windowing directions.  For a solved patch (i,j) the
\* first window cuts +1 on x iff the grid has a patch at (i+1,j) and +1 on y
\* iff it has one at (i,j+1); the second window cuts -1 on x iff there is a
\* patch at (i-1,j) and -1 on y iff there is one at (i,j-1); a side without
\* a neighbour gets direction 0 and a band of width 0; the second window is
\* applied to the result of the first, and that is what is added to z.  On
\* the 1 x 1 grid both direction vectors are (0,0).
C24_OutputWindowDirections ==
  /\ [](pc[1] = "cutoff" =>
          LET ii == Getijk(ip[1])[1]
              jj == Getijk(ip[1])[2]
              d1 == AheadDirections(ii, jj)
              d2 == BehindDirections(ii, jj)
          IN /\ ii = i[1] /\ jj = SweepJ(l[1], s[1], i[1])
             /\ d1 = <<HasPatch(ii + 1, jj), HasPatch(ii, jj + 1)>>
             /\ d2 = <<-HasPatch(ii - 1, jj), -HasPatch(ii, jj - 1)>>
             /\ \A a \in 1 .. 2 :
                  /\ CutOffPmlh(d1, nrlayers)[a][1] = 0
                  /\ CutOffPmlh(d2, nrlayers)[a][2] = 0
                  /\ (CutOffPmlh(d1, nrlayers)[a][2] > 0) <=> (d1[a] = 1)
                  /\ (CutOffPmlh(d2, nrlayers)[a][1] > 0) <=> (d2[a] = -1)
             /\ nrpatch = 1 => (d1 = <<0, 0>> /\ d2 = <<0, 0>>))
  /\ [][pc[1] = "cutoff" =>
          LET ii == Getijk(ip[1])[1]
              jj == Getijk(ip[1])[2]
              first == GetCutOffSolution(
                         sol_local[1], ip[1],
                         <<HasPatch(ii + 1, jj), HasPatch(ii, jj + 1)>>, nrlayers)
              second == GetCutOffSolution(
                          first, ip[1],
                          <<-HasPatch(ii - 1, jj), -HasPatch(ii, jj - 1)>>, nrlayers)
          IN z'[1] = VAdd(z[1], SetSubVector(ZeroVec(Len(z[1])),
                                            Dof2GlobalDof[ip[1]], second))]_vars

\* The centre patch of the 3 x 3 grid is about to be windowed on all four
\* sides.
C24_Witness ==
  /\ pc[1] = "cutoff"
  /\ AheadDirections(i[1], SweepJ(l[1], s[1], i[1])) = <<1, 1>>
  /\ BehindDirections(i[1], SweepJ(l[1], s[1], i[1])) = <<-1, -1>>
  /\ ~NormBelowThreshold(sol_local[1])

\* znew of lines 157-158 for patch p and local solution sol: the twice
\* windowed solution at the patch's global indices, zero elsewhere.
WindowedContribution(p, sol) ==
  LET ij == Getijk(p)
      cf1 == GetCutOffSolution(sol, p, AheadDirections(ij[1], ij[2]), nrlayers)
      cf2 == GetCutOffSolution(cf1, p, BehindDirections(ij[1], ij[2]), nrlayers)
  IN SetSubVector(ZeroVec(height), Dof2GlobalDof[p], cf2)

\* The patches of thread 1's application whose loop body ran to its end
\* (line 159) with a residual that was not skipped.
Contributed ==
  {p \in Patches :
     /\ visits[1][p] >= 1
     /\ ~(p = ip[1] /\ pc[1] \in {"transfer", "cutoff"})
     /\ ~NormBelowThreshold(LocalResidual(f_orig, f_transf, l[1], p))}

\* The sum over the patches of ps of their windowed contributions.
RECURSIVE SumOfWindowed(_)
SumOfWindowed(ps) ==
  IF ps = {} THEN ZeroVec(height)
  ELSE LET p == CHOOSE q \in ps : TRUE
       IN VAdd(SumOfWindowed(ps \ {p}),
               WindowedContribution(
                 p, KLUSolverMult(PmlMatInv[p],
                                  LocalResidual(f_orig, f_transf, l[1], p))))

\* C25 (Spec): gather-add output.  z changes only in the step that zeroes it
\* at the start of the application and in the additions of the loop body;
\* each such addition adds one windowed local solution at the global indices
\* of the patch just solved and zero elsewhere; at every point of the loop,
\* and at the return, z is the sum of the contributions of the patches
\* solved so far, so a global DOF shared by overlapping patches holds the sum
\* of their contributions.
C25_GatherAdd ==
  /\ [][z' # z =>
          \/ pc[1] = "scatter" /\ z'[1] = ZeroVec(Len(z[1]))
          \/ /\ pc[1] = "cutoff"
             /\ \E znew \in {WindowedContribution(ip[1], sol_local[1])} :
                  /\ z'[1] = VAdd(z[1], znew)
                  /\ \A g \in 1 .. Len(znew) :
                       ~(\E k \in DOMAIN Dof2GlobalDof[ip[1]] :
                            Dof2GlobalDof[ip[1]][k] = g - 1) => znew[g] = 0]_vars
  /\ [](pc[1] \in {"loop", "transfer", "cutoff", "done"} =>
          z[1] = SumOfWindowed(Contributed))

\* An application returns with a global DOF that two patches contributed a
\* non-zero value to, neither of them equal to the value z holds there.
C25_Witness ==
  /\ pc[1] = "done"
  /\ \E g \in 1 .. height : \E p, q \in Contributed :
       LET cp == WindowedContribution(
                   p, KLUSolverMult(PmlMatInv[p],
                                    LocalResidual(f_orig, f_transf, l[1], p)))
           cq == WindowedContribution(
                   q, KLUSolverMult(PmlMatInv[q],
                                    LocalResidual(f_orig, f_transf, l[1], q)))
       IN /\ p # q /\ cp[g] # 0 /\ cq[g] # 0
          /\ z[1][g] # cp[g] /\ z[1][g] # cq[g]

\* Direction vectors a caller may hand to GetCutOffSolution.
DirectionVectors == {-1, 0, 1} \X {-1, 0, 1}

\* Entry k of a local vector of patch p lies in a transition band of the
\* direction vector d: its cell is one grid step from the patch's own cell
\* on the side d cuts, on some axis.
InBand(p, k, d) ==
  LET g == fespaces[p][((k - 1) % Len(fespaces[p])) + 1]
  IN \/ d[1] # 0 /\ CoordI(g, nxyz) - CoordI(p, nxyz) = d[1]
     \/ d[2] # 0 /\ CoordJ(g, nxyz) - CoordJ(p, nxyz) = d[2]

CellOffset(p, k) ==
  LET g == fespaces[p][((k - 1) % Len(fespaces[p])) + 1]
  IN <<CoordI(g, nxyz) - CoordI(p, nxyz), CoordJ(g, nxyz) - CoordJ(p, nxyz)>>

\* C27 (SpecTransfer): windowing with direction 0.  For the patch and the
\* local solution of a call and every direction vector d: an axis with
\* d = 0 gets a band of width zero on both of its sides, and the window does
\* not vary along that axis: two entries of equal value whose cells differ
\* only in their position on that axis are windowed to equal values, and an
\* entry whose cell is not on the cut side of the other axis is unchanged;
\* with d = (0,0) the result is the input.  No call changes its input: the
\* local solution is the same after TransferSources, which windows it once
\* for each neighbour, as before.
C27_DirectionZeroIsIdentity ==
  /\ [](pc[1] = "cutoff" =>
          \A d \in DirectionVectors :
            LET sol == sol_local[1]
                cfsol == GetCutOffSolution(sol, ip[1], d, nrlayers)
            IN /\ \A a \in 1 .. 2 :
                    d[a] = 0 =>
                      /\ CutOffPmlh(d, nrlayers)[a] = <<0, 0>>
                      /\ \A k, k2 \in DOMAIN sol :
                           LET b == 3 - a
                           IN /\ (CellOffset(ip[1], k)[b] = CellOffset(ip[1], k2)[b]
                                   /\ sol[k] = sol[k2]) => cfsol[k] = cfsol[k2]
                              /\ (d[b] = 0 \/ CellOffset(ip[1], k)[b] # d[b])
                                    => cfsol[k] = sol[k]
               /\ d = <<0, 0>> => cfsol = sol)
  /\ [][pc[1] = "transfer" => sol_local' = sol_local]_vars

\* TransferSources has windowed a solution with no zero entry of the centre
\* patch of the 3 x 3 grid toward a neighbour on the x axis, direction 0 on
\* y, and delivered a non-zero contribution.
C27_Witness ==
  /\ pc[1] = "cutoff"
  /\ nxyz = <<3, 3, 1>> /\ Getijk(ip[1]) = <<1, 1, 0>>
  /\ \A k \in DOMAIN sol_local[1] : sol_local[1][k] # 0
  /\ \E k \in DOMAIN delivered :
       /\ delivered[k].off = <<1, 0>>
       /\ ~NormBelowThreshold(delivered[k].res)

\* The fronts of sweep ll after front ss that hold patch p.
LaterFronts(p, ll, ss) ==
  {s2 \in ss + 1 .. NSteps - 1 :
     \E k \in DOMAIN FrontInLoopOrder(ll, s2) : FrontInLoopOrder(ll, s2)[k] = p}

\* C28 (Spec): no write after read.  Within one application no step changes
\* f_transf[p][l] once patch p has been visited in sweep l; every delivery
\* of a TransferSources call lands in a buffer of a later sweep, or in the
\* buffer of the current sweep of a patch that is not visited yet and lies
\* on a strictly later front; and when the application returns every patch
\* has been visited, so what was delivered within the sweep was consumed
\* after it was delivered.
C28_NoWriteAfterRead ==
  /\ [][\A p \in Patches : \A ll \in 0 .. nsweeps - 1 :
          f_transf'[p][ll] # f_transf[p][ll] => ConsumedCount(p, ll) = 0]_vars
  /\ [](pc[1] = "cutoff" =>
          \A k \in DOMAIN delivered :
             delivered[k].into < nsweeps =>
                \/ delivered[k].into > l[1]
                \/ /\ delivered[k].into = l[1]
                   /\ visits[1][delivered[k].to] = 0
                   /\ LaterFronts(delivered[k].to, l[1], s[1]) # {})
  /\ [](pc[1] = "done" => \A p \in Patches : visits[1][p] = 1)

\* A call has added a non-zero contribution to the current sweep's buffer of
\* a patch that is still to be visited, while another patch has been visited
\* already.
C28_Witness ==
  /\ pc[1] = "cutoff"
  /\ \E p \in Patches : p # ip[1] /\ visits[1][p] = 1
  /\ \E k \in DOMAIN delivered :
       /\ delivered[k].into = l[1]
       /\ ~NormBelowThreshold(delivered[k].res)
       /\ visits[1][delivered[k].to] = 0

\* C29 (SpecTransfer): frame of TransferSources(sweep, ip0, sol0).  The call
\* changes f_transf[ip1][l'] only for patches ip1 other than ip0 that are
\* adjacent to ip0 and only for l' >= sweep, and keeps the size of every
\* buffer; it leaves unchanged every f_orig, every f_transf[ip0][*], every
\* f_transf[q][l'] with l' < sweep, the local solution sol0, the output
\* vector z, the loop counters and the object.
C29_TransferSourcesFrame ==
  [][pc[1] = "transfer" =>
       /\ f_orig' = f_orig
       /\ sol_local' = sol_local
       /\ z' = z
       /\ <<l', s', i', ip', r'>> = <<l, s, i, ip, r>>
       /\ objvars' = objvars
       /\ DOMAIN f_transf' = DOMAIN f_transf
       /\ \A p \in Patches :
            /\ DOMAIN f_transf'[p] = DOMAIN f_transf[p]
            /\ \A ll \in 0 .. nsweeps - 1 :
                 /\ Len(f_transf'[p][ll]) = Len(f_transf[p][ll])
                 /\ f_transf'[p][ll] # f_transf[p][ll] =>
                      /\ p # ip[1]
                      /\ p \in AdjacentPatches(ip[1])
                      /\ ll >= l[1]
            /\ p = ip[1] => f_transf'[p] = f_transf[p]
            /\ \A ll \in 0 .. l[1] - 1 : f_transf'[p][ll] = f_transf[p][ll]]_vars

\* A call with sweep >= 1 has returned: it added a non-zero contribution for
\* one neighbour and found no row for another.
C29_Witness ==
  /\ pc[1] = "cutoff"
  /\ l[1] >= 1
  /\ \E k \in DOMAIN delivered :
       /\ delivered[k].into < nsweeps
       /\ ~NormBelowThreshold(delivered[k].res)
  /\ \E k \in DOMAIN delivered : delivered[k].into = nsweeps

\* C30 (SpecCtor): patch id and grid coordinates.  On every constructed
\* object, for every patch id ip in 0..nx*ny*nz-1, Getijk(ip) lies in
\* 0..nx-1, 0..ny-1, 0..nz-1, distinct ids have distinct triples, every
\* triple of the grid is the triple of some id, and GetPatchId(Getijk(ip))
\* is ip; on a two-dimensional object the patch GetPatchId returns for the
\* pair (i+di, j+dj) that TransferSources builds for an in-grid offset has
\* the coordinates (i+di, j+dj, 0), and differs from ip.
C30_PatchIdBijection ==
  pc[1] = "idle" =>
     /\ nrpatch = nxyz[1] * nxyz[2] * nxyz[3]
     /\ \A p \in Patches :
          /\ Getijk(p)[1] \in 0 .. nxyz[1] - 1
          /\ Getijk(p)[2] \in 0 .. nxyz[2] - 1
          /\ Getijk(p)[3] \in 0 .. nxyz[3] - 1
          /\ GetPatchId(Getijk(p)) = p
     /\ \A p, q \in Patches : p # q => Getijk(p) # Getijk(q)
     /\ \A c \in (0 .. nxyz[1] - 1) \X (0 .. nxyz[2] - 1) \X (0 .. nxyz[3] - 1) :
          \E p \in Patches : Getijk(p) = c
     /\ dim = 2 =>
          \A p \in Patches : \A di, dj \in {-1, 0, 1} :
             LET i1 == Getijk(p)[1] + di
                 j1 == Getijk(p)[2] + dj
             IN (/\ i1 \in 0 .. nxyz[1] - 1
                 /\ j1 \in 0 .. nxyz[2] - 1
                 /\ ~(di = 0 /\ dj = 0)) =>
                   /\ GetPatchId(<<i1, j1>>) \in Patches \ {p}
                   /\ Getijk(GetPatchId(<<i1, j1>>)) = <<i1, j1, 0>>

\* A constructed object on a grid with nx, ny and nz all different and more
\* than one layer of patches along z.
C30_Witness ==
  /\ pc[1] = "idle"
  /\ nxyz = <<3, 2, 2>> \/ nxyz = <<2, 3, 2>>
  /\ nrpatch = 12
====
